---- MODULE Spec2Model ----
(***************************************************************************)
(* Durable chat stream of golem-llm (llm/src/durability.rs) wrapped around *)
(* the Ollama provider (llm-ollama/src/lib.rs).                            *)
(*                                                                         *)
(* The host keeps an append-only oplog.  A worker run executes the caller  *)
(* program from its start; durable functions replay oplog entries until    *)
(* the oplog is exhausted (is_live) and record new entries afterwards.     *)
(* A crash throws the worker's memory away and restarts the program.       *)
(***************************************************************************)
EXTENDS Integers, Sequences, FiniteSets, TLC

\* ------------------------------------------------------------------ bounds
MaxCalls == 2      \* get_next() calls the caller makes in one run
MaxCrashes == 2    \* crashes (restarts) of the worker
MaxSubs == 1       \* subscribe() calls on one stream instance

\* ------------------------------------------------------------- data model
None == <<>>
Some(x) == <<x>>
IsSome(o) == o # <<>>

Range(s) == {s[i] : i \in DOMAIN s}

\* ContentPart::Text; a string is kept as the sequence of its pieces
Text(pieces) == [kind |-> "Text", text |-> pieces]

Message(role, content) == [role |-> role, name |-> None, content |-> content]

ToolCall(id, name, args) == [id |-> id, name |-> name, arguments_json |-> args]

StreamDelta(content, tool_calls) == [content |-> content, tool_calls |-> tool_calls]

NoDelta == StreamDelta(None, None)

Delta(d) == [type |-> "Delta", delta |-> d]
Finish == [type |-> "Finish", delta |-> NoDelta]
Error == [type |-> "Error", delta |-> NoDelta]

DA == Delta(StreamDelta(Some(<<Text(<<"a">>)>>), None))
DT == Delta(StreamDelta(None, Some(<<ToolCall("ollama-t", "f", "{}")>>)))

\* Option<Vec<StreamEvent>> values the provider stream's get_next() yields
Results ==
  { None, Some(<<>>), Some(<<DA, DT>>), Some(<<DT, Finish>>), Some(<<Error>>) }

Q1 == Message("User", <<Text(<<"q1">>)>>)
Q2 == Message("User", <<Text(<<"q2">>)>>)

\* arguments the caller program passes to stream()
Calls == { [messages |-> <<Q1, Q2>>, config |-> "m1"] }

\* ---------------------------------------------------------------- helpers
RECURSIVE Concat(_)
Concat(ss) == IF ss = <<>> THEN <<>> ELSE Head(ss) \o Concat(Tail(ss))

\* the events of a get_next() result (None and Some([]) carry none)
EventsOf(r) == IF IsSome(r) THEN r[1] ELSE <<>>

IsDelta(e) == e.type = "Delta"
IsTerminal(e) == e.type \in {"Finish", "Error"}

\* ------------------------------------------------------------- the state
VARIABLES
  args,          \* [messages, config] the program passes to stream()
  oplog,         \* the host's durable log
  cursor,        \* number of oplog entries this run has consumed or written
  state,         \* DurableChatStream.state
  subscription,  \* DurableChatStream.subscription
  lazies,        \* the LazyInitializedPollable resources created so far
  backend,       \* provider streams opened so far (all runs)
  pc,            \* position of the caller program
  crashes,       \* restarts so far; also the number of the current run
  returned,      \* results get_next() returned in this run, in order
  effects,       \* side effects of the last operation, in code order
  startLen,      \* length of the oplog when this run started
  prevRun,       \* what the previous run started from and returned
  call,          \* a function applied on its own: its name, arguments, result
  es             \* a Transport Session (EventSource) with its response

vars == <<args, oplog, cursor, state, subscription, lazies, backend, pc,
          crashes, returned, effects, startLen, prevRun, call, es>>

\* the durable stream and its caller
streamVars == <<args, oplog, cursor, state, subscription, lazies, backend, pc,
                crashes, returned, effects, startLen, prevRun>>

\* what the durable stream's operations leave alone
aside == <<call, es>>

Effect(op, arg, level) == [op |-> op, arg |-> arg, level |-> level]

\* Durability::is_live(): the oplog has nothing left to replay
is_live == cursor = Len(oplog)

\* Durability::persist_infallible(input, output)
persist_infallible(log, fn, out) == Append(log, [fn |-> fn, out |-> out])

\* Durability::replay_infallible()
replay_infallible(log, at) == log[at + 1].out

NoState == [kind |-> "None"]

\* DurableChatStream::live
live(stream) == [kind |-> "Live", stream |-> stream, pollables |-> <<>>]

\* replay that starts out finished
replay_as_finished(original_messages, config) ==
  [kind |-> "Replay", original_messages |-> original_messages, config |-> config,
   pollables |-> <<>>, partial_result |-> <<>>, finished |-> TRUE]

\* DurableChatStream::replay
replay(original_messages, config) ==
  [kind |-> "Replay", original_messages |-> original_messages,
   config |-> config, pollables |-> <<>>, partial_result |-> <<>>,
   finished |-> FALSE]

\* ExtendedGuest::unwrapped_stream: a provider stream record
unwrapped_stream(messages, config, run) ==
  [messages |-> messages, config |-> config, emitted |-> <<>>,
   run |-> run, dropped |-> FALSE]

\* --------------------------------------------------- continuation prompt
InterruptedNote ==
  Text(<<"You were asked the same question previously, but the response was interrupted before completion. Please continue your response from where you left off. Do not include the part of the response that was already seen.">>)
OriginalQuestionNote == Text(<<"Here is the original question:">>)
PartialResponseNote ==
  Text(<<"Here is the partial response that was successfully received:">>)

\* format!("<tool-call id=\"{}\" name=\"{}\" arguments=\"{}\"/>", ..)
FormatToolCall(tc) ==
  Text(<<"<tool-call id=\"", tc.id, "\" name=\"", tc.name,
         "\" arguments=\"", tc.arguments_json, "\"/>">>)

\* one iteration of `for delta in partial_result`
DeltaAsContent(d) ==
  (IF IsSome(d.content) THEN d.content[1] ELSE <<>>)
  \o (IF IsSome(d.tool_calls)
      THEN [i \in DOMAIN d.tool_calls[1] |-> FormatToolCall(d.tool_calls[1][i])]
      ELSE <<>>)

partial_result_as_content(partial_result) ==
  Concat([i \in DOMAIN partial_result |-> DeltaAsContent(partial_result[i])])

\* retry_prompt with the two notes in one System message
retry_prompt_one_note(original_messages, partial_result) ==
  <<Message("System", <<InterruptedNote, OriginalQuestionNote>>)>>
  \o original_messages
  \o <<Message("User", <<PartialResponseNote>>
                       \o partial_result_as_content(partial_result))>>

\* OllamaComponent::retry_prompt (the provider's override)
retry_prompt(original_messages, partial_result) ==
  <<Message("System", <<InterruptedNote>>),
    Message("User", <<OriginalQuestionNote>>)>>
  \o original_messages
  \o <<Message("User", <<PartialResponseNote>>
                       \o partial_result_as_content(partial_result))>>

\* ExtendedGuest::retry_prompt (the trait's default implementation)
default_retry_prompt(original_messages, partial_result) ==
  <<Message("System", <<InterruptedNote, OriginalQuestionNote>>)>>
  \o original_messages
  \o <<Message("System", <<PartialResponseNote>>
                         \o partial_result_as_content(partial_result))>>

\* ---------------------------------------------------------------- get_next
\* Each branch of get_next() maps the values it reads to the values it
\* leaves behind; r is what the provider stream's get_next() yields.
Outcome(result, st, log, bk, lz, eff) ==
  [result |-> result, state |-> st, oplog |-> log, backend |-> bk,
   lazies |-> lz, effects |-> eff]

\* get_next_Live with the persist call left out
get_next_Live_unrecorded(st, log, bk, lz, r) ==
  Outcome(r, st, log,
          [bk EXCEPT ![st.stream].emitted = Append(@, r)],
          lz,
          <<Effect("stream.get_next", st.stream, "PersistNothing"),
            Effect("return", 0, "Default")>>)

\* get_next_Live that answers an Error event by calling the backend again
get_next_Live_retry_on_error(st, log, bk, lz, r) ==
  LET failed == \E i \in DOMAIN EventsOf(r) : EventsOf(r)[i].type = "Error"
      seen == [bk EXCEPT ![st.stream].emitted = Append(@, r)]
      again == Append(seen, unwrapped_stream(bk[st.stream].messages,
                                             bk[st.stream].config,
                                             bk[st.stream].run))
  IN Outcome(r,
             IF failed THEN live(Len(again)) ELSE st,
             persist_infallible(log, "get_next", r),
             IF failed THEN again ELSE seen,
             lz,
             <<Effect("stream.get_next", st.stream, "PersistNothing"),
               Effect("persist", 0, "Default"),
               Effect("return", 0, "Default")>>)

\* get_next_Live that opens another backend stream when the stream it has
\* returned None
get_next_Live_reopens(st, log, bk, lz, r) ==
  LET seen == [bk EXCEPT ![st.stream].emitted = Append(@, r)]
      again == Append(seen, unwrapped_stream(bk[st.stream].messages,
                                             bk[st.stream].config,
                                             bk[st.stream].run))
  IN Outcome(r,
             IF r = None THEN [st EXCEPT !.stream = Len(again)] ELSE st,
             persist_infallible(log, "get_next", r),
             IF r = None THEN again ELSE seen,
             lz,
             <<Effect("stream.get_next", st.stream, "PersistNothing"),
               Effect("persist", 0, "Default"),
               Effect("return", 0, "Default")>>)

\* get_next_Live that keeps an empty batch of the provider to itself
get_next_Live_swallows(st, log, bk, lz, r) ==
  Outcome(IF r = Some(<<>>) THEN None ELSE r, st,
          persist_infallible(log, "get_next", IF r = Some(<<>>) THEN None ELSE r),
          [bk EXCEPT ![st.stream].emitted = Append(@, r)],
          lz,
          <<Effect("stream.get_next", st.stream, "PersistNothing"),
            Effect("persist", 0, "Default"),
            Effect("return", 0, "Default")>>)

\* is_live, state = Live
get_next_Live(st, log, bk, lz, r) ==
  Outcome(r, st,
          persist_infallible(log, "get_next", r),
          [bk EXCEPT ![st.stream].emitted = Append(@, r)],
          lz,
          <<Effect("stream.get_next", st.stream, "PersistNothing"),
            Effect("persist", 0, "Default"),
            Effect("return", 0, "Default")>>)

\* set_pollables that binds the first handle only
set_pollables_first_only(lz, pollables, stream) ==
  [i \in DOMAIN lz |->
     IF pollables # <<>> /\ i = pollables[1]
     THEN [lz[i] EXCEPT !.target = stream] ELSE lz[i]]

\* `for lazy_initialized_pollable in pollables { .set(Impl::subscribe(&stream)) }`
set_pollables(lz, pollables, stream) ==
  [i \in DOMAIN lz |->
     IF i \in Range(pollables) THEN [lz[i] EXCEPT !.target = stream] ELSE lz[i]]

\* get_next_Continue handing the replayed Deltas out again with the first
\* live result
get_next_Continue_reemit(st, log, bk, lz, r, run) ==
  LET extended_messages == retry_prompt(st.original_messages, st.partial_result)
      new == Len(bk) + 1
      stream == unwrapped_stream(extended_messages, st.config, run)
      again == [i \in DOMAIN st.partial_result |-> Delta(st.partial_result[i])]
  IN Outcome(Some(again \o EventsOf(r)),
             [kind |-> "Live", stream |-> new, pollables |-> st.pollables],
             persist_infallible(log, "get_next", r),
             Append(bk, [stream EXCEPT !.emitted = <<r>>]),
             set_pollables(lz, st.pollables, new),
             <<Effect("retry_prompt", 0, "Default"),
               Effect("unwrapped_stream", new, "PersistNothing")>>
             \o [i \in DOMAIN st.pollables |->
                   Effect("set", st.pollables[i], "PersistNothing")]
             \o <<Effect("stream.get_next", new, "PersistNothing"),
                  Effect("persist", 0, "Default"),
                  Effect("return", 0, "Default")>>)

\* get_next_Continue resuming with the original prompt only
get_next_Continue_same_prompt(st, log, bk, lz, r, run) ==
  LET new == Len(bk) + 1
      stream == unwrapped_stream(st.original_messages, st.config, run)
  IN Outcome(r,
             [kind |-> "Live", stream |-> new, pollables |-> st.pollables],
             persist_infallible(log, "get_next", r),
             Append(bk, [stream EXCEPT !.emitted = <<r>>]),
             set_pollables(lz, st.pollables, new),
             <<Effect("unwrapped_stream", new, "PersistNothing")>>
             \o [i \in DOMAIN st.pollables |->
                   Effect("set", st.pollables[i], "PersistNothing")]
             \o <<Effect("stream.get_next", new, "PersistNothing"),
                  Effect("persist", 0, "Default"),
                  Effect("return", 0, "Default")>>)

\* get_next_Continue that takes the state and does not put the Live state back
get_next_Continue_taken(st, log, bk, lz, r, run) ==
  LET extended_messages == retry_prompt(st.original_messages, st.partial_result)
      new == Len(bk) + 1
      stream == unwrapped_stream(extended_messages, st.config, run)
  IN Outcome(r,
             NoState,
             persist_infallible(log, "get_next", r),
             Append(bk, [stream EXCEPT !.emitted = <<r>>]),
             set_pollables(lz, st.pollables, new),
             <<Effect("retry_prompt", 0, "Default"),
               Effect("unwrapped_stream", new, "PersistNothing")>>
             \o [i \in DOMAIN st.pollables |->
                   Effect("set", st.pollables[i], "PersistNothing")]
             \o <<Effect("stream.get_next", new, "PersistNothing"),
                  Effect("persist", 0, "Default"),
                  Effect("return", 0, "Default")>>)

\* get_next_Continue building on the prompt of the newest backend stream
get_next_Continue_chained(st, log, bk, lz, r, run) ==
  LET extended_messages == retry_prompt(bk[Len(bk)].messages, st.partial_result)
      new == Len(bk) + 1
      stream == unwrapped_stream(extended_messages, st.config, run)
  IN Outcome(r,
             [kind |-> "Live", stream |-> new, pollables |-> st.pollables],
             persist_infallible(log, "get_next", r),
             Append(bk, [stream EXCEPT !.emitted = <<r>>]),
             set_pollables(lz, st.pollables, new),
             <<Effect("retry_prompt", 0, "Default"),
               Effect("unwrapped_stream", new, "PersistNothing")>>
             \o [i \in DOMAIN st.pollables |->
                   Effect("set", st.pollables[i], "PersistNothing")]
             \o <<Effect("stream.get_next", new, "PersistNothing"),
                  Effect("persist", 0, "Default"),
                  Effect("return", 0, "Default")>>)

\* is_live, state = Replay, not finished: the switch to a new live stream
get_next_Continue(st, log, bk, lz, r, run) ==
  LET extended_messages == retry_prompt(st.original_messages, st.partial_result)
      new == Len(bk) + 1
      stream == unwrapped_stream(extended_messages, st.config, run)
  IN Outcome(r,
             [kind |-> "Live", stream |-> new, pollables |-> st.pollables],
             persist_infallible(log, "get_next", r),
             Append(bk, [stream EXCEPT !.emitted = <<r>>]),
             set_pollables(lz, st.pollables, new),
             <<Effect("retry_prompt", 0, "Default"),
               Effect("unwrapped_stream", new, "PersistNothing")>>
             \o [i \in DOMAIN st.pollables |->
                   Effect("set", st.pollables[i], "PersistNothing")]
             \o <<Effect("stream.get_next", new, "PersistNothing"),
                  Effect("persist", 0, "Default"),
                  Effect("return", 0, "Default")>>)

\* get_next_Finished without the check of finished: it resumes the backend
get_next_Finished_resumes(st, log, bk, lz) ==
  get_next_Continue(st, log, bk, lz, Some(<<>>), 0)

\* is_live, state = Replay, finished
get_next_Finished(st, log, bk, lz) ==
  Outcome(None, st, log, bk, lz, <<Effect("return", 0, "Default")>>)

RECURSIVE consume_error_ignored(_, _)
\* consume with the Error arm left out
consume_error_ignored(st, events) ==
  IF events = <<>> THEN st
  ELSE LET e == Head(events)
           st1 == IF IsDelta(e)
                  THEN [st EXCEPT !.partial_result = Append(@, e.delta)]
                  ELSE IF e.type = "Finish"
                       THEN [st EXCEPT !.finished = TRUE]
                       ELSE st
       IN consume_error_ignored(st1, Tail(events))

RECURSIVE consume(_, _)
\* `for event in result { match event { .. } }` of the replay branch
consume(st, events) ==
  IF events = <<>> THEN st
  ELSE LET e == Head(events)
           st1 == IF IsDelta(e)
                  THEN [st EXCEPT !.partial_result = Append(@, e.delta)]
                  ELSE [st EXCEPT !.finished = TRUE]
       IN consume(st1, Tail(events))

\* get_next_Replay that returns the entry without looking at its events
get_next_Replay_untracked(st, log, at, bk, lz) ==
  Outcome(replay_infallible(log, at), st, log, bk, lz,
          <<Effect("replay", at + 1, "Default"),
            Effect("return", 0, "Default")>>)

\* get_next_Replay handing out the newest entry instead of the next one
get_next_Replay_newest(st, log, at, bk, lz) ==
  LET result == log[Len(log)].out
  IN Outcome(result, consume(st, EventsOf(result)), log, bk, lz,
             <<Effect("replay", at + 1, "Default"),
               Effect("return", 0, "Default")>>)

\* not is_live, state = Replay
get_next_Replay(st, log, at, bk, lz) ==
  LET result == replay_infallible(log, at)
  IN Outcome(result, consume(st, EventsOf(result)), log, bk, lz,
             <<Effect("replay", at + 1, "Default"),
               Effect("return", 0, "Default")>>)

\* GuestChatStream::get_next for DurableChatStream; before lists the effects
\* of the caller that precede the call within the same operation
get_next(r, before) ==
  LET o == IF is_live
           THEN IF state.kind = "Live"
                THEN get_next_Live(state, oplog, backend, lazies, r)
                ELSE IF state.finished
                     THEN get_next_Finished(state, oplog, backend, lazies)
                     ELSE get_next_Continue(state, oplog, backend, lazies, r, crashes)
           ELSE get_next_Replay(state, oplog, cursor, backend, lazies)
  IN /\ state.kind \in {"Live", "Replay"}
     /\ ~is_live => state.kind = "Replay"
     /\ Len(returned) < MaxCalls
     /\ state' = o.state
     /\ oplog' = o.oplog
     /\ cursor' = IF is_live THEN Len(o.oplog) ELSE cursor + 1
     /\ backend' = o.backend
     /\ lazies' = o.lazies
     /\ effects' = before \o o.effects
     /\ returned' = Append(returned, [live |-> is_live, result |-> o.result])

\* ------------------------------------------------------------- subscribe
\* subscribe that starts the replay buffer afresh
subscribe_clearing(st, lz) ==
  IF st.kind = "Live"
  THEN [pollable |-> [lazy |-> 0, stream |-> st.stream],
        state |-> st, lazies |-> lz,
        effects |-> <<Effect("Impl::subscribe", st.stream, "Default")>>]
  ELSE LET id == Len(lz) + 1
       IN [pollable |-> [lazy |-> id, stream |-> 0],
           state |-> [st EXCEPT !.pollables = Append(@, id),
                                !.partial_result = <<>>],
           lazies |-> Append(lz, [target |-> 0, released |-> FALSE]),
           effects |-> <<Effect("LazyInitializedPollable::new", id, "Default")>>]

\* DurableChatStream::subscribe: the Pollable handed out and what it leaves
subscribe(st, lz) ==
  IF st.kind = "Live"
  THEN [pollable |-> [lazy |-> 0, stream |-> st.stream],
        state |-> st, lazies |-> lz,
        effects |-> <<Effect("Impl::subscribe", st.stream, "Default")>>]
  ELSE LET id == Len(lz) + 1
       IN [pollable |-> [lazy |-> id, stream |-> 0],
           state |-> [st EXCEPT !.pollables = Append(@, id)],
           lazies |-> Append(lz, [target |-> 0, released |-> FALSE]),
           effects |-> <<Effect("LazyInitializedPollable::new", id, "Default")>>]

\* ------------------------------------------------------------------ drop
release_pollables(lz, pollables) ==
  [i \in DOMAIN lz |->
     IF i \in Range(pollables) THEN [lz[i] EXCEPT !.released = TRUE] ELSE lz[i]]

clear_effects(pollables, level) ==
  [i \in DOMAIN pollables |-> Effect("drop_pollable", pollables[i], level)]

\* drop that releases the stream before the handles
drop_stream_first(st, sub, bk, lz) ==
  LET taken == IF IsSome(sub)
               THEN <<Effect("drop_subscription", 0, "Default")>> ELSE <<>>
  IN IF st.kind = "Live"
     THEN [state |-> NoState, subscription |-> None,
           backend |-> [bk EXCEPT ![st.stream].dropped = TRUE],
           lazies |-> release_pollables(lz, st.pollables),
           effects |-> <<Effect("drop_stream", st.stream, "PersistNothing")>>
                       \o taken \o clear_effects(st.pollables, "PersistNothing")]
     ELSE [state |-> NoState, subscription |-> None,
           backend |-> bk,
           lazies |-> release_pollables(lz, st.pollables),
           effects |-> taken \o clear_effects(st.pollables, "Default")]

\* Drop for DurableChatStream
drop(st, sub, bk, lz) ==
  LET taken == IF IsSome(sub)
               THEN <<Effect("drop_subscription", 0, "Default")>> ELSE <<>>
  IN IF st.kind = "Live"
     THEN [state |-> NoState, subscription |-> None,
           backend |-> [bk EXCEPT ![st.stream].dropped = TRUE],
           lazies |-> release_pollables(lz, st.pollables),
           effects |-> taken \o clear_effects(st.pollables, "PersistNothing")
                       \o <<Effect("drop_stream", st.stream, "PersistNothing")>>]
     ELSE [state |-> NoState, subscription |-> None,
           backend |-> bk,
           lazies |-> release_pollables(lz, st.pollables),
           effects |-> taken \o clear_effects(st.pollables, "Default")]

\* --------------------------------------------------------------- actions
NoOutput == <<"NoOutput">>

NoCall == [fn |-> "none"]
NoSession == [kind |-> "none"]

\* the caller program before its call of stream()
InitStream ==
  /\ args \in Calls
  /\ oplog = <<>>
  /\ cursor = 0
  /\ state = NoState
  /\ subscription = None
  /\ lazies = <<>>
  /\ backend = <<>>
  /\ pc = "start"
  /\ crashes = 0
  /\ returned = <<>>
  /\ effects = <<>>
  /\ startLen = 0
  /\ prevRun = [startLen |-> 0, replayed |-> <<>>]

Init ==
  /\ InitStream
  /\ call = NoCall
  /\ es = NoSession

\* DurableLLM::stream, live branch
StreamLive ==
  /\ pc = "start"
  /\ is_live
  /\ backend' = Append(backend, unwrapped_stream(args.messages, args.config, crashes))
  /\ state' = live(Len(backend) + 1)
  /\ oplog' = persist_infallible(oplog, "stream", NoOutput)
  /\ cursor' = Len(oplog')
  /\ effects' = <<Effect("unwrapped_stream", Len(backend) + 1, "PersistNothing"),
                  Effect("persist", 0, "Default")>>
  /\ subscription' = None
  /\ pc' = "idle"
  /\ UNCHANGED <<aside, args, lazies, crashes, returned, startLen, prevRun>>

\* DurableLLM::stream, replay branch
StreamReplay ==
  /\ pc = "start"
  /\ ~is_live
  /\ state' = replay(args.messages, args.config)
  /\ cursor' = cursor + 1
  /\ effects' = <<Effect("replay", cursor + 1, "Default")>>
  /\ subscription' = None
  /\ pc' = "idle"
  /\ UNCHANGED <<aside, args, oplog, backend, lazies, crashes, returned, startLen, prevRun>>

\* a call of subscribe() on its own (blocking_get_next registers one more
\* handle, see BlockingEnter)
Subscribe ==
  /\ pc = "idle"
  /\ Len(lazies) < MaxSubs
  /\ LET s == subscribe(state, lazies)
     IN /\ state' = s.state
        /\ lazies' = s.lazies
        /\ effects' = s.effects
  /\ UNCHANGED <<aside, args, oplog, cursor, subscription, backend, pc, crashes,
                 returned, startLen, prevRun>>

\* a direct call of get_next()
GetNext ==
  /\ pc = "idle"
  /\ \E r \in Results : get_next(r, <<>>)
  /\ UNCHANGED <<aside, args, subscription, pc, crashes, startLen, prevRun>>

\* blocking_get_next() that subscribes on every call
BlockingEnter_resubscribes ==
  /\ pc = "idle"
  /\ Len(returned) < MaxCalls
  /\ LET s == subscribe(state, lazies)
     IN /\ state' = s.state
        /\ lazies' = s.lazies
        /\ effects' = s.effects
        /\ subscription' = Some(s.pollable)
  /\ pc' = "blocking"
  /\ UNCHANGED <<aside, args, oplog, cursor, backend, crashes, returned, startLen, prevRun>>

\* blocking_get_next(), up to the loop: register or reuse the subscription
BlockingEnter ==
  /\ pc = "idle"
  /\ Len(returned) < MaxCalls
  /\ IF IsSome(subscription)
     THEN /\ effects' = <<>>
          /\ UNCHANGED <<state, lazies, subscription>>
     ELSE LET s == subscribe(state, lazies)
          IN /\ state' = s.state
             /\ lazies' = s.lazies
             /\ effects' = s.effects
             /\ subscription' = Some(s.pollable)
  /\ pc' = "blocking"
  /\ UNCHANGED <<aside, args, oplog, cursor, backend, crashes, returned, startLen, prevRun>>

\* a loop that hands an empty list to the caller when get_next() had
\* nothing to return
blocking_break_on_none(result) == TRUE

\* `match self.get_next() { Some(events) => break events, None => continue }`
blocking_break(result) == IsSome(result)

\* blocking_get_next(), one iteration of the loop over the results rs the
\* provider stream may return
blocking_iteration(rs) ==
  /\ pc = "blocking"
  /\ \E r \in rs :
       get_next(r, <<Effect("block", subscription[1].lazy, "Default")>>)
  /\ pc' = IF blocking_break(returned'[Len(returned')].result)
           THEN "idle" ELSE "blocking"
  /\ UNCHANGED <<aside, args, subscription, crashes, startLen, prevRun>>

\* blocking_get_next(), one iteration of the loop
BlockingIter == blocking_iteration(Results)

\* the caller drops the stream
Drop ==
  /\ pc = "idle"
  /\ LET d == drop(state, subscription, backend, lazies)
     IN /\ state' = d.state
        /\ subscription' = d.subscription
        /\ backend' = d.backend
        /\ lazies' = d.lazies
        /\ effects' = d.effects
  /\ pc' = "dropped"
  /\ UNCHANGED <<aside, args, oplog, cursor, crashes, returned, startLen, prevRun>>

\* results of the replay-mode calls among rs
Replayed(rs) ==
  LET notLive(x) == ~x.live
      sel == SelectSeq(rs, notLive)
  IN [i \in DOMAIN sel |-> sel[i].result]

\* the worker crashes (everything in its memory is dropped) and the host
\* restarts the program from the oplog
Crash ==
  /\ pc # "start"
  /\ crashes < MaxCrashes
  /\ crashes' = crashes + 1
  /\ prevRun' = [startLen |-> startLen, replayed |-> Replayed(returned)]
  /\ startLen' = Len(oplog)
  /\ cursor' = 0
  /\ state' = NoState
  /\ subscription' = None
  /\ lazies' = <<>>
  /\ returned' = <<>>
  /\ effects' = <<>>
  /\ backend' = [i \in DOMAIN backend |-> [backend[i] EXCEPT !.dropped = TRUE]]
  /\ pc' = "start"
  /\ UNCHANGED <<aside, args, oplog>>

Next ==
  \/ StreamLive
  \/ StreamReplay
  \/ Subscribe
  \/ GetNext
  \/ BlockingEnter
  \/ BlockingIter
  \/ Drop
  \/ Crash

Spec == Init /\ [][Next]_vars

TypeOK ==
  /\ cursor \in 0..Len(oplog)
  /\ pc \in {"start", "idle", "blocking", "dropped"}
  /\ state.kind \in {"None", "Live", "Replay"}
  /\ (pc \in {"idle", "blocking"}) <=> (state.kind # "None")

\* ---------------------------------------------------------------- claims
\* outputs of the get_next entries of the oplog (entry 1 is the stream entry)
LogOutputs == [i \in 1..(Len(oplog) - 1) |-> oplog[i + 1].out]

\* this step is a get_next() call
IsGetNextStep == Len(returned') = Len(returned) + 1

\* what that call returned
StepResult == returned'[Len(returned')].result

Pos(eff, op) == {i \in DOMAIN eff : eff[i].op = op}

\* every effect a comes before every effect b
Before(eff, a, b) == \A i \in Pos(eff, a), j \in Pos(eff, b) : i < j

SeqOfDeltas(events) ==
  LET ds == SelectSeq(events, IsDelta) IN [i \in DOMAIN ds |-> ds[i].delta]

\* the Deltas of a sequence of returned results, in delivery order
DeltasOf(rs) == Concat([i \in DOMAIN rs |-> SeqOfDeltas(EventsOf(rs[i].result))])

HasTerminal(rs) ==
  \E i \in DOMAIN rs : \E j \in DOMAIN EventsOf(rs[i].result) :
     IsTerminal(EventsOf(rs[i].result)[j])

\* C1: a live-mode get_next() on a Live stream polls the provider stream
\* exactly once (under PersistNothing), appends exactly that result to the
\* oplog before it returns, and returns the value it persisted.
C1_RecordBeforeReturn ==
  [][(IsGetNextStep /\ is_live /\ state.kind = "Live") =>
       /\ Len(backend') = Len(backend)
       /\ \A i \in DOMAIN backend : i # state.stream => backend'[i] = backend[i]
       /\ backend'[state.stream].emitted
            = Append(backend[state.stream].emitted, StepResult)
       /\ Cardinality(Pos(effects', "stream.get_next")) = 1
       /\ \A i \in Pos(effects', "stream.get_next") :
            effects'[i].arg = state.stream /\ effects'[i].level = "PersistNothing"
       /\ oplog' = Append(oplog, [fn |-> "get_next", out |-> StepResult])
       /\ Cardinality(Pos(effects', "persist")) = 1
       /\ Before(effects', "stream.get_next", "persist")
       /\ Before(effects', "persist", "return")
       /\ state' = state]_vars

C1_Witness ==
  /\ state.kind = "Live"
  /\ crashes = 0
  /\ Len(returned) = 2
  /\ returned[2].live
  /\ returned[2].result = Some(<<DA, DT>>)
  /\ oplog[Len(oplog)].out = Some(<<DA, DT>>)
  /\ Pos(effects, "persist") # {}

\* C2: while recorded entries remain, get_next() returns the next recorded
\* output verbatim (the i-th call of the run gets the i-th recorded output),
\* leaves the oplog alone and makes no provider call.
C2_ReplayVerbatim ==
  [][(IsGetNextStep /\ ~is_live) =>
       /\ StepResult = oplog[cursor + 1].out
       /\ StepResult = LogOutputs[Len(returned')]
       /\ cursor' = cursor + 1
       /\ oplog' = oplog
       /\ backend' = backend
       /\ Pos(effects', "unwrapped_stream") = {}
       /\ Pos(effects', "stream.get_next") = {}
       /\ state'.kind = "Replay"]_vars

C2_Witness ==
  /\ state.kind = "Replay"
  /\ Len(returned) = 2
  /\ ~returned[1].live /\ ~returned[2].live
  /\ returned[1].result = Some(<<DA, DT>>)
  /\ returned[2].result = Some(<<Error>>)
  /\ Pos(effects, "replay") # {}

\* C3: a live-mode get_next() on an unfinished Replay stream opens exactly
\* one provider stream, with retry_prompt(original messages, the Deltas
\* delivered so far) and the original config, polls it once, appends that
\* result to the oplog, returns it and leaves the stream Live on the new
\* provider stream; a run opens at most one provider stream.
C3_Continuation ==
  [][(IsGetNextStep /\ is_live /\ state.kind = "Replay" /\ ~state.finished) =>
       LET new == Len(backend) + 1 IN
       /\ Len(backend') = new
       /\ \A i \in DOMAIN backend : backend'[i] = backend[i]
       /\ backend'[new].messages = retry_prompt(args.messages, DeltasOf(returned))
       /\ backend'[new].messages
            = retry_prompt(state.original_messages, state.partial_result)
       /\ backend'[new].config = args.config
       /\ backend'[new].emitted = <<StepResult>>
       /\ Cardinality(Pos(effects', "unwrapped_stream")) = 1
       /\ Cardinality(Pos(effects', "stream.get_next")) = 1
       /\ oplog' = Append(oplog, [fn |-> "get_next", out |-> StepResult])
       /\ Before(effects', "persist", "return")
       /\ state'.kind = "Live"
       /\ state'.stream = new
       /\ Cardinality({i \in DOMAIN backend' : backend'[i].run = crashes}) = 1]_vars

C3_Witness ==
  /\ state.kind = "Live"
  /\ crashes = 1
  /\ Len(returned) = 2
  /\ ~returned[1].live /\ returned[2].live
  /\ returned[1].result = Some(<<DA, DT>>)
  /\ backend[state.stream].messages = retry_prompt(args.messages, DeltasOf(<<returned[1]>>))
  /\ backend[state.stream].emitted = <<returned[2].result>>
  /\ Pos(effects, "unwrapped_stream") # {}

\* provider streams opened by the current run
RunStreams == {i \in DOMAIN backend : backend[i].run = crashes}

\* get_next entries the oplog held when this run started
ReplayCount == IF startLen = 0 THEN 0 ELSE startLen - 1

ResultsOf(rs) == [i \in DOMAIN rs |-> rs[i].result]

LiveResults(rs) ==
  LET isLive(x) == x.live IN ResultsOf(SelectSeq(rs, isLive))

\* C4: the caller gets the recorded entries first, in recorded order, and
\* live results only after all of them; the live results are exactly what
\* the run's one provider stream emitted, in order (nothing replayed is
\* handed out again), and the oplog is the provider streams' output in
\* emission order.
C4_OrderNoInterleaving ==
  /\ \A i \in DOMAIN returned : returned[i].live <=> i > ReplayCount
  /\ \A i \in DOMAIN returned : ~returned[i].live => returned[i].result = LogOutputs[i]
  /\ IF RunStreams = {}
     THEN \A i \in DOMAIN returned : returned[i].live => returned[i].result = None
     ELSE \A s \in RunStreams : LiveResults(returned) = backend[s].emitted
  /\ LogOutputs = Concat([i \in DOMAIN backend |-> backend[i].emitted])
  /\ (state.kind = "Live" => ResultsOf(returned) = LogOutputs)

C4_Witness ==
  /\ crashes = 1
  /\ state.kind = "Live"
  /\ Len(returned) = 2
  /\ ~returned[1].live /\ returned[2].live
  /\ returned[1].result = Some(<<DA, DT>>)
  /\ returned[2].result = Some(<<DT, Finish>>)
  /\ backend[2].emitted = <<Some(<<DT, Finish>>)>>

\* C5: from a Replay state with finished = true no step opens or polls a
\* provider stream, the stream stays Replay and finished, and a live-mode
\* get_next() returns None.
C5_FinishedIsFinal ==
  [][(state.kind = "Replay" /\ state.finished) =>
       /\ Len(backend') = Len(backend)
       /\ \A i \in DOMAIN backend : backend'[i].emitted = backend[i].emitted
       /\ state'.kind # "Live"
       /\ (state'.kind = "Replay" => state'.finished)
       /\ (IsGetNextStep =>
             /\ Pos(effects', "unwrapped_stream") = {}
             /\ Pos(effects', "stream.get_next") = {})
       /\ ((IsGetNextStep /\ is_live) => StepResult = None)]_vars

C5_Witness ==
  /\ state.kind = "Replay"
  /\ state.finished
  /\ is_live
  /\ Len(returned) = 2
  /\ ~returned[1].live /\ returned[2].live
  /\ returned[1].result = Some(<<Error>>)
  /\ returned[2].result = None
  /\ RunStreams = {}

\* C6: in Replay state partial_result is the sequence of Deltas get_next()
\* has returned so far, in delivery order, and finished tells whether a
\* Finish or an Error has been returned.
C6_PartialResultIsDelivered ==
  state.kind = "Replay" =>
    /\ state.partial_result = DeltasOf(returned)
    /\ state.finished <=> HasTerminal(returned)

C6_Witness ==
  /\ state.kind = "Replay"
  /\ ResultsOf(returned) = <<Some(<<DA, DT>>), Some(<<DT, Finish>>)>>
  /\ state.partial_result = <<DA.delta, DT.delta, DT.delta>>
  /\ state.finished

Min(a, b) == IF a < b THEN a ELSE b

\* this run and the one before it both started from the same oplog, whose
\* last entry holds a Finish
SameLogReplayedTwice ==
  /\ crashes >= 2
  /\ startLen >= 2
  /\ prevRun.startLen = startLen
  /\ Finish \in Range(EventsOf(oplog[startLen].out))

\* C7: two replays of one oplog that ends in Finish return the same results
\* call by call, and neither opens a provider stream nor extends the oplog.
C7_ReplayDeterminism ==
  SameLogReplayedTwice =>
    /\ LET a == prevRun.replayed
           b == Replayed(returned)
           n == Min(Len(a), Len(b))
       IN SubSeq(a, 1, n) = SubSeq(b, 1, n)
    /\ \A i \in DOMAIN backend : backend[i].run \notin {crashes, crashes - 1}
    /\ Len(oplog) = startLen

C7_Witness ==
  /\ SameLogReplayedTwice
  /\ startLen = 3
  /\ prevRun.replayed = <<Some(<<DA, DT>>), Some(<<DT, Finish>>)>>
  /\ Replayed(returned) = prevRun.replayed

\* C8: every get_next() call of a run consumes or appends exactly one oplog
\* entry, whatever the state of the stream.
C8_OneEntryPerCall ==
  state.kind # "None" => Len(returned) = cursor - 1

\* C9: the switch from Replay to Live binds every handle subscribe() issued
\* in Replay state, the one cached by blocking_get_next() among them, to the
\* new provider stream, after the stream is opened and before it is polled,
\* and carries the list of handles over unchanged.
C9_HandlesRebound ==
  [][(IsGetNextStep /\ is_live /\ state.kind = "Replay" /\ ~state.finished) =>
       /\ state'.kind = "Live"
       /\ state'.pollables = state.pollables
       /\ \A id \in Range(state.pollables) :
            /\ lazies'[id].target = state'.stream
            /\ \E i \in Pos(effects', "set") : effects'[i].arg = id
       /\ Cardinality(Pos(effects', "set")) = Len(state.pollables)
       /\ (IsSome(subscription) =>
             /\ subscription[1].lazy \in Range(state.pollables)
             /\ lazies'[subscription[1].lazy].target = state'.stream)
       /\ subscription' = subscription
       /\ Before(effects', "unwrapped_stream", "set")
       /\ Before(effects', "set", "stream.get_next")]_vars

C9_Witness ==
  /\ state.kind = "Live"
  /\ crashes = 1
  /\ Len(state.pollables) = 2
  /\ IsSome(subscription)
  /\ subscription[1].lazy = 2
  /\ \A id \in Range(state.pollables) : lazies[id].target = state.stream
  /\ Cardinality(Pos(effects, "set")) = 2

\* C10: dropping the stream releases the cached subscription and every
\* registered handle, and in Live state then the provider stream, the Live
\* teardown running under PersistNothing; the oplog is left alone and the
\* state is empty afterwards.
C10_DropReleases ==
  [][(state.kind # "None" /\ pc' = "dropped") =>
       /\ state' = NoState
       /\ subscription' = None
       /\ (IsSome(subscription) <=> Pos(effects', "drop_subscription") # {})
       /\ \A id \in Range(state.pollables) :
            /\ lazies'[id].released
            /\ \E i \in Pos(effects', "drop_pollable") : effects'[i].arg = id
       /\ Before(effects', "drop_subscription", "drop_pollable")
       /\ Before(effects', "drop_subscription", "drop_stream")
       /\ Before(effects', "drop_pollable", "drop_stream")
       /\ (state.kind = "Live" =>
             /\ backend'[state.stream].dropped
             /\ Cardinality(Pos(effects', "drop_stream")) = 1
             /\ \A i \in Pos(effects', "drop_pollable") \cup Pos(effects', "drop_stream") :
                  effects'[i].level = "PersistNothing")
       /\ (state.kind = "Replay" =>
             /\ backend' = backend
             /\ Pos(effects', "drop_stream") = {})
       /\ Pos(effects', "persist") = {}
       /\ oplog' = oplog
       /\ cursor' = cursor]_vars

C10_Witness ==
  /\ pc = "dropped"
  /\ state = NoState
  /\ subscription = None
  /\ Pos(effects, "drop_subscription") # {}
  /\ Pos(effects, "drop_pollable") # {}
  /\ Pos(effects, "drop_stream") # {}
  /\ \E s \in RunStreams : backend[s].dropped
  /\ \A id \in DOMAIN lazies : lazies[id].released


\* C11: errors are never retried automatically. A get_next() call in Live
\* state keeps the stream it has and opens no backend call, whatever the
\* stream returned; get_next() opens a backend call only in live mode, in
\* Replay state with finished = false (the log is exhausted), and then it
\* opens exactly one.
C11_NoAutomaticRetry ==
  [][IsGetNextStep =>
       /\ state.kind = "Live" => (Len(backend') = Len(backend) /\ state' = state)
       /\ Len(backend') # Len(backend) =>
            /\ state.kind = "Replay" /\ ~state.finished /\ is_live
            /\ Len(backend') = Len(backend) + 1]_vars

\* an Error event was returned live and get_next() was called once more on
\* the same stream: the run still has the one backend call it began with
C11_Witness ==
  /\ crashes = 0
  /\ state.kind = "Live"
  /\ Len(returned) = 2
  /\ returned[1].live /\ returned[1].result = Some(<<Error>>)
  /\ returned[2].live
  /\ Len(backend) = 1
  /\ Len(backend[1].emitted) = 2


\* ------------------------------------------------- the provider's stream
\* LlmChatStream (llm/src/chat_stream.rs) as the specification describes it:
\* None when the poll cycle has no data, a batch of events otherwise; the end
\* of the response is signalled by a Finish or Error event inside a batch,
\* and a stream that has signalled it is exhausted and returns the empty
\* batch from then on.
is_finished(emitted) ==
  \E i \in DOMAIN emitted :
     \E j \in DOMAIN EventsOf(emitted[i]) : IsTerminal(EventsOf(emitted[i])[j])

stream_get_next(emitted) ==
  IF is_finished(emitted) THEN { Some(<<>>) } ELSE Results \ { Some(<<>>) }

\* what the stream behind the next live get_next() may return: the stream
\* held in Live state, or the one the continuation is about to open
next_results ==
  IF state.kind = "Live" THEN stream_get_next(backend[state.stream].emitted)
  ELSE stream_get_next(<<>>)

\* a direct call of get_next() on top of the provider's stream
GetNextLlm ==
  /\ pc = "idle"
  /\ \E r \in next_results : get_next(r, <<>>)
  /\ UNCHANGED <<aside, args, subscription, pc, crashes, startLen, prevRun>>

\* blocking_get_next(), one iteration, on top of the provider's stream
BlockingIterLlm == blocking_iteration(next_results)

NextLlm ==
  \/ StreamLive
  \/ StreamReplay
  \/ Subscribe
  \/ GetNextLlm
  \/ BlockingEnter
  \/ BlockingIterLlm
  \/ Drop
  \/ Crash

\* the durable stream over the provider's stream
SpecLlm == Init /\ [][NextLlm]_vars

\* a Finish or Error event is among the results delivered in this run
TerminalDelivered == HasTerminal(returned)

\* this step is blocking_get_next() returning to its caller
IsBlockingReturn == pc = "blocking" /\ pc' = "idle"

\* an empty batch is among the results delivered in this run
EmptyDelivered == \E i \in DOMAIN returned : returned[i].result = Some(<<>>)

ExhaustedLoopIsFixpoint ==
  [][(pc = "blocking" /\ TerminalDelivered /\ IsGetNextStep /\ pc' = "blocking") =>
       (state' = state /\ oplog' = oplog /\ cursor' = cursor /\ backend' = backend
        /\ lazies' = lazies /\ subscription' = subscription)]_vars

\* C13: blocking_get_next() terminates on permanent exhaustion. Once a Finish
\* or Error has been delivered, live or during replay, the loop of the next
\* blocking_get_next() leaves with the empty list (an iteration that stays in
\* the loop repeats forever, see ExhaustedLoopIsFixpoint).
C13_BlockingTerminates ==
  [][(pc = "blocking" /\ TerminalDelivered /\ IsGetNextStep) =>
       (pc' = "idle" /\ StepResult = Some(<<>>))]_vars
\* the Deltas of a sequence of get_next results
DeltasIn(results) ==
  Concat([i \in DOMAIN results |-> SeqOfDeltas(EventsOf(results[i]))])

\* this run is the recovery from a crash in the middle of a streaming
\* response: the oplog it started from holds the stream entry and no Finish
\* or Error
MidStreamRecovery ==
  /\ crashes >= 1
  /\ startLen >= 1
  /\ \A i \in 1..ReplayCount : ~is_finished(<<LogOutputs[i]>>)

MaxMessages == 2
MaxPartial == 2

RECURSIVE SeqsUpTo(_, _)
\* the sequences over S of length 0..n
SeqsUpTo(S, n) ==
  IF n = 0 THEN { <<>> }
  ELSE LET shorter == SeqsUpTo(S, n - 1)
       IN shorter \cup { Append(q, x) : q \in shorter, x \in S }

SystemMessage == Message("System", <<Text(<<"s">>)>>)
DBoth == Delta(StreamDelta(Some(<<Text(<<"b">>), Text(<<"c">>)>>),
                           Some(<<ToolCall("ollama-t", "f", "{}"),
                                  ToolCall("ollama-t", "g", "{\"x\":1}")>>)))

\* original message lists and partial results retry_prompt is applied to
OriginalMessages == SeqsUpTo({Q1, Q2, SystemMessage}, MaxMessages)
PartialResults == SeqsUpTo({DA.delta, DT.delta, DBoth.delta, NoDelta}, MaxPartial)

InitPrompt ==
  /\ InitStream
  /\ es = NoSession
  /\ call \in { [fn |-> f, original_messages |-> o,
                  partial_result |-> p, done |-> FALSE, out |-> <<>>] :
                  f \in { "retry_prompt", "default_retry_prompt" },
                  o \in OriginalMessages, p \in PartialResults }

\* Impl::retry_prompt(&original_messages, &partial_result)
RetryPrompt ==
  /\ call.fn = "retry_prompt"
  /\ ~call.done
  /\ call' = [call EXCEPT
                !.out = retry_prompt(call.original_messages, call.partial_result),
                !.done = TRUE]
  /\ UNCHANGED <<streamVars, es>>

\* <Impl as ExtendedGuest>::retry_prompt of a provider that keeps the default
DefaultRetryPrompt ==
  /\ call.fn = "default_retry_prompt"
  /\ ~call.done
  /\ call' = [call EXCEPT
                !.out = default_retry_prompt(call.original_messages,
                                             call.partial_result),
                !.done = TRUE]
  /\ UNCHANGED <<streamVars, es>>

NextPrompt == RetryPrompt \/ DefaultRetryPrompt

SpecPrompt == InitPrompt /\ [][NextPrompt]_vars

RECURSIVE PartialContent(_)
\* the partial content: for each Delta in order its content parts, then one
\* text part per tool call
PartialContent(partial_result) ==
  IF partial_result = <<>> THEN <<>>
  ELSE LET d == Head(partial_result)
           parts == IF d.content = None THEN <<>> ELSE d.content[1]
           calls == IF d.tool_calls = None THEN <<>> ELSE d.tool_calls[1]
       IN parts
          \o [i \in 1..Len(calls) |->
                Text(<<"<tool-call id=\"", calls[i].id, "\" name=\"", calls[i].name,
                       "\" arguments=\"", calls[i].arguments_json, "\"/>">>)]
          \o PartialContent(Tail(partial_result))

\* C15: retry_prompt(original, partial) is one System message holding the
\* interruption note, one User message 'Here is the original question:', the
\* original messages verbatim and in order, and one User message whose
\* content is the partial-response note followed by the partial content; it
\* has len(original) + 3 messages.
C15_RetryPromptShape ==
  (call.fn = "retry_prompt" /\ call.done) =>
    LET original == call.original_messages
        n == Len(original)
        out == call.out
    IN /\ Len(out) = n + 3
       /\ out[1] = [role |-> "System", name |-> None, content |-> <<InterruptedNote>>]
       /\ out[2] = [role |-> "User", name |-> None, content |-> <<OriginalQuestionNote>>]
       /\ SubSeq(out, 3, n + 2) = original
       /\ out[n + 3].role = "User"
       /\ out[n + 3].name = None
       /\ Head(out[n + 3].content) = PartialResponseNote
       /\ Tail(out[n + 3].content) = PartialContent(call.partial_result)

\* retry_prompt was applied to two original messages and to a partial result
\* of two Deltas, one with text and one with a tool call
C15_Witness ==
  /\ call.fn = "retry_prompt"
  /\ call.done
  /\ call.original_messages = <<SystemMessage, Q1>>
  /\ call.partial_result = <<DA.delta, DT.delta>>
  /\ Len(call.out) = 5
  /\ Len(call.out[5].content) = 3
\* ------------------------------------------------ the Transport Session
MaxText == 4

\* StatusCode::OK
StatusOK == 200

\* a header value that parses as a MIME type, kept as the pieces of its text:
\* <type>/<subtype>[;<params>]; "ndjson" occurs in the text only as a piece
Mime(type, subtype, params) ==
  [ascii |-> TRUE, parses |-> TRUE, type |-> type, subtype |-> subtype,
   params |-> params]

\* a header value that to_str() rejects, and one that is no MIME type
Opaque == [ascii |-> FALSE, parses |-> FALSE, type |-> <<>>, subtype |-> <<>>,
           params |-> <<>>]
NoMime == [ascii |-> TRUE, parses |-> FALSE, type |-> <<"ndjson">>, subtype |-> <<>>,
           params |-> <<>>]

\* Content-Type headers of the responses: absent, or one of these values
ContentTypes ==
  { None,
    Some(Opaque),
    Some(NoMime),
    Some(Mime(<<"text">>, <<"event-stream">>, <<>>)),
    Some(Mime(<<"text">>, <<"event-stream">>, <<"charset=utf-8">>)),
    Some(Mime(<<"text">>, <<"event-stream">>, <<"boundary=", "ndjson">>)),
    Some(Mime(<<"application">>, <<"x-", "ndjson">>, <<>>)),
    Some(Mime(<<"application">>, <<"x-", "ndjson">>, <<"charset=utf-8">>)),
    Some(Mime(<<"application">>, <<"event-stream">>, <<>>)),
    Some(Mime(<<"application">>, <<"json">>, <<"profile=", "ndjson">>)),
    Some(Mime(<<"text">>, <<"plain">>, <<>>)) }

Statuses == { StatusOK, 204, 500 }

\* the characters of a body: two letters, the newline, a blank
Chars == { "a", "b", "\n", " " }

\* the response bodies
Texts == SeqsUpTo(Chars, MaxText)

\* HeaderValue::to_str() of a value check_response accepted
to_str(value) == value.type \o <<"/">> \o value.subtype \o value.params

\* str::contains("ndjson")
contains_ndjson(pieces) == \E i \in DOMAIN pieces : pieces[i] = "ndjson"

\* check_response that takes every 2xx status
check_response_2xx(response) ==
  IF response.status \notin 200..299 THEN "InvalidStatusCode"
  ELSE IF response.content_type = None THEN "InvalidContentType"
  ELSE LET content_type == response.content_type[1]
           accepted ==
             /\ content_type.ascii
             /\ content_type.parses
             /\ \/ (content_type.type = <<"text">>
                    /\ content_type.subtype = <<"event-stream">>)
                \/ contains_ndjson(content_type.subtype)
       IN IF accepted THEN "Ok" ELSE "InvalidContentType"

\* check_response
check_response(response) ==
  IF response.status # StatusOK THEN "InvalidStatusCode"
  ELSE IF response.content_type = None THEN "InvalidContentType"
  ELSE LET content_type == response.content_type[1]
           accepted ==
             /\ content_type.ascii
             /\ content_type.parses
             /\ \/ (content_type.type = <<"text">>
                    /\ content_type.subtype = <<"event-stream">>)
                \/ contains_ndjson(content_type.subtype)
       IN IF accepted THEN "Ok" ELSE "InvalidContentType"

\* Poll<Option<Result<Event, Error>>>
NotPolled == [poll |-> "NotPolled", event |-> None]
Pending == [poll |-> "Pending", event |-> None]
ReadyNone == [poll |-> "Ready(None)", event |-> None]
ReadyErr == [poll |-> "Ready(Some(Err))", event |-> None]
ReadyOk(event) == [poll |-> "Ready(Some(Ok))", event |-> Some(event)]

\* NdJsonStream::new
NdJsonStream_new == [buffer |-> <<>>, state |-> "NotStarted", last_event_id |-> <<>>]

\* a response as it arrives
Response(status, content_type, text) ==
  [kind |-> "response",
   response |-> [status |-> status, content_type |-> content_type, body |-> text],
   error |-> "none", steps |-> <<>>, variant |-> "none", is_closed |-> FALSE,
   wire |-> text, nd |-> NdJsonStream_new, pc |-> "idle", out |-> NotPolled,
   touched |-> {}, events |-> <<>>]

\* EventSource::new
EventSource_new(e) ==
  LET checked == check_response(e.response)
  IN IF checked # "Ok"
     THEN [e EXCEPT !.kind = "failed", !.error = checked,
                    !.steps = <<"check_response">>]
     ELSE IF contains_ndjson(to_str(e.response.content_type[1]))
          THEN [e EXCEPT !.kind = "session", !.variant = "NdJsonStream",
                         !.steps = <<"check_response", "get_raw_input_stream",
                                     "NdJsonStream::new">>]
          ELSE [e EXCEPT !.kind = "session", !.variant = "EventStream",
                         !.steps = <<"check_response", "get_raw_input_stream",
                                     "EventStream::new">>]

\* EventSource::ready_state
ready_state(e) == IF e.is_closed THEN "Closed" ELSE "Open"
\* ------------------------------------------------------ the NDJSON parser
\* char::is_whitespace, for the characters of Chars
is_whitespace(c) == c \in { " ", "\n" }

RECURSIVE trim_start(_)
trim_start(str) ==
  IF str # <<>> /\ is_whitespace(Head(str)) THEN trim_start(Tail(str)) ELSE str

RECURSIVE trim_end(_)
trim_end(str) ==
  IF str # <<>> /\ is_whitespace(str[Len(str)])
  THEN trim_end(SubSeq(str, 1, Len(str) - 1)) ELSE str

\* str::trim
trim(str) == trim_end(trim_start(str))

\* str::find('\n'): the position of the first newline, 0 for None
find_newline(str) ==
  IF \E i \in DOMAIN str : str[i] = "\n"
  THEN CHOOSE i \in DOMAIN str :
         str[i] = "\n" /\ \A j \in 1..(i - 1) : str[j] # "\n"
  ELSE 0

MessageEvent(data, id) ==
  [event |-> "message", data |-> data, id |-> id, retry |-> None]

\* try_parse_line: the parser it leaves and the event it found
try_parse_line(stream) ==
  LET newline_pos == find_newline(stream.buffer)
      line == trim(SubSeq(stream.buffer, 1, newline_pos - 1))
      drained == [stream EXCEPT
                    !.buffer = SubSeq(@, newline_pos + 1, Len(@))]
  IN IF newline_pos = 0 THEN [stream |-> stream, event |-> None]
     ELSE IF line = <<>> THEN [stream |-> drained, event |-> None]
     ELSE [stream |-> drained,
           event |-> Some(MessageEvent(line, stream.last_event_id))]

\* the session after its poll_next returned out
Returned(e, out) ==
  [e EXCEPT !.pc = "idle", !.out = out,
            !.events = IF IsSome(out.event) THEN Append(@, out.event[1]) ELSE @]

\* NdJsonStream::poll_next that goes on to the byte source when terminated
NdJsonStream_poll_next_unterminated(e) ==
  LET parsed == try_parse_line(e.nd)
      e1 == [e EXCEPT !.nd = parsed.stream, !.touched = {"parser"}]
  IN IF IsSome(parsed.event) THEN Returned(e1, ReadyOk(parsed.event[1]))
     ELSE [e1 EXCEPT !.pc = "loop"]

\* NdJsonStream::poll_next up to its loop
NdJsonStream_poll_next(e) ==
  LET parsed == try_parse_line(e.nd)
      e1 == [e EXCEPT !.nd = parsed.stream, !.touched = {"parser"}]
  IN IF IsSome(parsed.event) THEN Returned(e1, ReadyOk(parsed.event[1]))
     ELSE IF e1.nd.state = "Terminated" THEN Returned(e1, ReadyNone)
     ELSE [e1 EXCEPT !.pc = "loop"]

\* the loop of NdJsonStream::poll_next, `Poll::Ready(Some(Ok(string)))`
NdJsonStream_chunk(e, string) ==
  LET fed == [e EXCEPT
                !.touched = @ \cup {"transport"},
                !.wire = SubSeq(@, Len(string) + 1, Len(@))]
      started == [fed EXCEPT
                    !.nd.state = IF @ = "Terminated" THEN @ ELSE "Started",
                    !.nd.buffer = @ \o string]
      parsed == try_parse_line(started.nd)
      e1 == [started EXCEPT !.nd = parsed.stream]
  IN IF string = <<>> THEN fed
     ELSE IF IsSome(parsed.event) THEN Returned(e1, ReadyOk(parsed.event[1]))
     ELSE e1

\* the end of the transport taken without a look at the buffer
NdJsonStream_end_unsalvaged(e) ==
  Returned([e EXCEPT !.touched = @ \cup {"transport"},
                     !.nd.state = "Terminated"],
           ReadyNone)

\* the loop of NdJsonStream::poll_next, `Poll::Ready(None)`
NdJsonStream_end(e) ==
  LET e1 == [e EXCEPT !.touched = @ \cup {"transport"},
                      !.nd.state = "Terminated"]
      remaining == e1.nd.buffer
  IN IF trim(remaining) # <<>>
     THEN Returned([e1 EXCEPT !.nd.buffer = <<>>],
                   ReadyOk(MessageEvent(trim(remaining), e1.nd.last_event_id)))
     ELSE Returned(e1, ReadyNone)

\* the strings the Utf8Stream may hand over next: a part of what is still on
\* the wire, or the empty string
Chunks(wire) == { SubSeq(wire, 1, n) : n \in 0..Len(wire) }
\* ------------------------------------------- the session's operations
\* what EventStream::poll_next (the SSE parser) may return: some event, an
\* error, the end, or Pending
EventStreamResults ==
  { Pending, ReadyNone, ReadyErr, ReadyOk(MessageEvent(<<"a">>, <<>>)) }

InitSession ==
  /\ InitStream
  /\ call = NoCall
  /\ es \in { Response(status, content_type, text) :
               status \in Statuses, content_type \in ContentTypes, text \in Texts }

\* EventSource::new(response)
EsNew ==
  /\ es.kind = "response"
  /\ es' = EventSource_new(es)
  /\ UNCHANGED <<streamVars, call>>

\* EventSource::close
close(e) == [e EXCEPT !.is_closed = TRUE]

EsClose ==
  /\ es.kind = "session"
  /\ es.pc = "idle"
  /\ es' = close(es)
  /\ UNCHANGED <<streamVars, call>>

\* EventSource::poll_next with the closed test left out
poll_next_unguarded(e) ==
  IF e.variant = "NdJsonStream"
  THEN { NdJsonStream_poll_next(e) }
  ELSE { Returned([e EXCEPT !.touched = {"parser"}], out) :
           out \in EventStreamResults }

\* EventSource::poll_next: the sessions it may leave
poll_next(e) ==
  IF e.is_closed THEN { Returned([e EXCEPT !.touched = {}], ReadyNone) }
  ELSE IF e.variant = "NdJsonStream"
  THEN { NdJsonStream_poll_next(e) }
  ELSE { Returned([e EXCEPT !.touched = {"parser"}], out) :
           out \in EventStreamResults }

EsPollNext ==
  /\ es.kind = "session"
  /\ es.pc = "idle"
  /\ Len(es.events) < MaxText
  /\ es' \in poll_next(es)
  /\ UNCHANGED <<streamVars, call>>

\* one turn of the loop of NdJsonStream::poll_next: what self.stream.poll_next()
\* returned and what the parser does with it
EsPollLoop ==
  /\ es.kind = "session"
  /\ es.pc = "loop"
  /\ \/ \E string \in Chunks(es.wire) : es' = NdJsonStream_chunk(es, string)
     \/ es' = Returned([es EXCEPT !.touched = @ \cup {"transport"}], ReadyErr)
     \/ es' = Returned([es EXCEPT !.touched = @ \cup {"transport"}], Pending)
     \/ es.wire = <<>> /\ es' = NdJsonStream_end(es)
  /\ UNCHANGED <<streamVars, call>>

NextSession ==
  \/ EsNew
  \/ EsClose
  \/ EsPollNext
  \/ EsPollLoop

SpecSession == InitSession /\ [][NextSession]_vars

\* the validation step takes the Content-Type as an event stream / as NDJSON
IsEventStreamType(content_type) ==
  /\ content_type # None
  /\ content_type[1].parses
  /\ content_type[1].type = <<"text">>
  /\ content_type[1].subtype = <<"event-stream">>

IsNdjsonType(content_type) ==
  /\ content_type # None
  /\ content_type[1].parses
  /\ "ndjson" \in Range(content_type[1].subtype)

\* C17: session construction succeeds only for status 200 with a Content-Type
\* that is text/event-stream or an ndjson type; another status fails with
\* InvalidStatusCode, status 200 with a missing or unrecognized Content-Type
\* fails with InvalidContentType, and a failed construction has neither
\* obtained the body input stream nor created a parser nor read the body.
C17_ResponseGate ==
  (es.kind \in {"failed", "session"}) =>
    LET status == es.response.status
        content_type == es.response.content_type
        recognized == IsEventStreamType(content_type) \/ IsNdjsonType(content_type)
    IN /\ es.kind = "session" <=> (status = 200 /\ recognized)
       /\ status # 200 => es.error = "InvalidStatusCode"
       /\ (status = 200 /\ ~recognized) => es.error = "InvalidContentType"
       /\ es.kind = "failed" =>
            /\ es.steps = <<"check_response">>
            /\ es.variant = "none"
            /\ es.wire = es.response.body
            /\ es.nd = NdJsonStream_new
            /\ es.events = <<>>

\* a response with status 200 and Content-Type text/plain was refused with
\* its body unread
C17_Witness ==
  /\ es.kind = "failed"
  /\ es.response.status = 200
  /\ es.response.content_type = Some(Mime(<<"text">>, <<"plain">>, <<>>))
  /\ es.error = "InvalidContentType"
  /\ es.response.body # <<>>
\* once the session is constructed no step gives it another parser variant
VariantIsFixed ==
  [][es.kind = "session" => (es'.kind = "session" /\ es'.variant = es.variant)]_vars

\* C18: the parser variant agrees with the validation step for every accepted
\* Content-Type, parameters included: a response accepted as text/event-stream
\* has the SSE variant, a response accepted for its ndjson subtype has the
\* NDJSON variant.
C18_VariantAgreesWithValidation ==
  es.kind = "session" =>
    /\ IsEventStreamType(es.response.content_type) => es.variant = "EventStream"
    /\ IsNdjsonType(es.response.content_type) => es.variant = "NdJsonStream"
\* C19: on a closed session every poll_next() returns Ready(None) and touches
\* neither the parser nor the transport (buffer, parser state and unread
\* bytes stay as they are, nothing is emitted); a closed session stays closed
\* whatever is called, close() included; ready_state() is Open from the
\* construction until close() and Closed from then on.
C19_ClosedSessionIsSilent ==
  [][/\ (es.kind = "response" /\ es'.kind = "session") => ready_state(es') = "Open"
     /\ (es.kind = "session" /\ ~es.is_closed /\ ready_state(es') = "Closed") =>
          es' = close(es)
     /\ (es.kind = "session" /\ es.is_closed) =>
          /\ ready_state(es) = "Closed"
          /\ ready_state(es') = "Closed"
          /\ es'.kind = "session"
          /\ es'.wire = es.wire
          /\ es'.nd = es.nd
          /\ es'.events = es.events
          /\ es'.pc = "idle"
          /\ es' # es => (es'.out = ReadyNone /\ es'.touched = {})]_vars

\* a session closed while a complete line was buffered and the transport had
\* not ended; the poll_next() after close() returned Ready(None)
C19_Witness ==
  /\ es.kind = "session"
  /\ es.variant = "NdJsonStream"
  /\ es.is_closed
  /\ es.out = ReadyNone
  /\ es.touched = {}
  /\ es.nd.state = "Started"
  /\ find_newline(es.nd.buffer) > 0
  /\ trim(es.nd.buffer) # <<>>
  /\ Len(es.events) = 1
RECURSIVE Lines(_)
\* the newline-terminated lines of a text, in order, without their newline
Lines(text) ==
  LET p == find_newline(text)
  IN IF p = 0 THEN <<>>
     ELSE <<SubSeq(text, 1, p - 1)>> \o Lines(SubSeq(text, p + 1, Len(text)))

RECURSIVE Remainder(_)
\* what follows the last newline of a text
Remainder(text) ==
  LET p == find_newline(text)
  IN IF p = 0 THEN text ELSE Remainder(SubSeq(text, p + 1, Len(text)))

NonBlank(line) == trim(line) # <<>>

\* the NDJSON parser has taken the whole body and the end of the transport
NdJsonDone ==
  /\ es.kind = "session"
  /\ es.variant = "NdJsonStream"
  /\ IsNdjsonType(es.response.content_type)
  /\ ~es.is_closed
  /\ es.pc = "idle"
  /\ es.nd.state = "Terminated"

\* C20: when the NDJSON parser has taken the whole input, every
\* newline-terminated non-blank line has produced exactly one Message Event,
\* in input order, whose data is the line (compared without the surrounding
\* whitespace), whose event name is "message", whose id is the last known
\* cursor and whose retry is absent; blank lines have produced none: the only
\* other event is the one for a non-blank unterminated tail.
C20_OneEventPerLine ==
  NdJsonDone =>
    LET lines == SelectSeq(Lines(es.response.body), NonBlank)
        tail == IF NonBlank(Remainder(es.response.body)) THEN 1 ELSE 0
    IN /\ Len(es.events) = Len(lines) + tail
       /\ \A i \in 1..Len(lines) :
            /\ trim(es.events[i].data) = trim(lines[i])
            /\ es.events[i].event = "message"
            /\ es.events[i].id = es.nd.last_event_id
            /\ es.events[i].retry = None
\* an open session over the NDJSON parser, for an NDJSON response
NdJsonSession ==
  /\ es.kind = "session"
  /\ es.variant = "NdJsonStream"
  /\ IsNdjsonType(es.response.content_type)
  /\ ~es.is_closed

\* the two bodies "a\nb" and "a\nb\n": two lines, without and with the
\* trailing newline
TwoLines == { <<"a", "\n", "b">>, <<"a", "\n", "b", "\n">> }

\* C21: when the transport ends and the buffer holds more than whitespace,
\* the buffer (without its surrounding whitespace) is emitted as one last
\* Message Event and the buffer is left empty; a whitespace-only buffer
\* yields Ready(None) and no event; after the end nothing more is emitted
\* and every poll returns Ready(None). So the two lines "a" and "b" yield
\* exactly the two events a, b with and without a trailing newline.
C21_Salvage ==
  [][NdJsonSession =>
       /\ (es.nd.state # "Terminated" /\ es'.nd.state = "Terminated") =>
            IF trim(es.nd.buffer) # <<>>
            THEN /\ es'.out = ReadyOk(MessageEvent(trim(es.nd.buffer),
                                                   es.nd.last_event_id))
                 /\ es'.events = Append(es.events, es'.out.event[1])
                 /\ es'.nd.buffer = <<>>
            ELSE /\ es'.out = ReadyNone
                 /\ es'.events = es.events
       /\ (es.nd.state = "Terminated" /\ es' # es /\ ~es'.is_closed) =>
            (es'.events = es.events /\ es'.out = ReadyNone)
       /\ (es.response.body \in TwoLines /\ es'.nd.state = "Terminated") =>
            es'.events = <<MessageEvent(<<"a">>, <<>>), MessageEvent(<<"b">>, <<>>)>>]_vars

\* the body "a\nb" ended without a newline: the tail "b" came out as the
\* second event at the end of the transport, and the poll after it returned
\* Ready(None)
C21_Witness ==
  /\ NdJsonSession
  /\ es.response.body = <<"a", "\n", "b">>
  /\ es.nd.state = "Terminated"
  /\ es.events = <<MessageEvent(<<"a">>, <<>>), MessageEvent(<<"b">>, <<>>)>>
  /\ es.out = ReadyNone
  /\ es.touched = {"parser"}
\* --------------------------------------------- the Ollama Protocol Decoder
MaxToolCalls == 2

\* a u32, kept as its two 16-bit halves
U32(hi, lo) == [hi |-> hi, lo |-> lo]

\* `+` on u32 as the release build computes it (wrapping)
wrapping_add(a, b) ==
  LET lo == a.lo + b.lo
      hi == a.hi + b.hi + (lo \div 2^16)
  IN U32(hi % 2^16, lo % 2^16)

\* a serde_json::Value as decode_message reads it: whether the text parsed,
\* whether it is an object, and the fields the decoder looks at (None: the
\* field is absent or has another type)
Json(done, prompt_eval_count, eval_count, created_at, done_reason, message) ==
  [parses |-> TRUE, object |-> TRUE, done |-> done,
   prompt_eval_count |-> prompt_eval_count, eval_count |-> eval_count,
   created_at |-> created_at, done_reason |-> done_reason, message |-> message]

\* a text that is no JSON, and a JSON text that is no object
Unparseable == [Json(None, None, None, None, None, None) EXCEPT
                  !.parses = FALSE, !.object = FALSE]
Scalar == [Json(None, None, None, None, None, None) EXCEPT !.object = FALSE]

\* the entries of "tool_calls": with a "function" (name, arguments) or without
FunctionCalls ==
  { [function |-> Some([name |-> Some("f"), arguments |-> Some("{\"x\":1}")])],
    [function |-> Some([name |-> Some("g"), arguments |-> None])],
    [function |-> None] }

\* the "message" objects
JsonMessages ==
  { [content |-> c, tool_calls |-> t] :
      c \in { None, Some(""), Some("hi") },
      t \in { None } \cup { Some(q) : q \in SeqsUpTo(FunctionCalls, MaxToolCalls) } }

\* the payloads handed to decode_message
Payloads ==
  { Unparseable, Scalar }
  \cup { Json(done, pec, ec, created_at, done_reason, message) :
           done \in { None, Some(TRUE), Some(FALSE) },
           pec \in { None, Some(U32(0, 0)), Some(U32(0, 3)),
                     Some(U32(2^16 - 1, 2^16 - 1)) },
           ec \in { None, Some(U32(0, 5)), Some(U32(2^16 - 1, 2^16 - 1)) },
           created_at \in { None, Some("t1") },
           done_reason \in { None, Some("stop"), Some("length"), Some("unload") },
           message \in { None } \cup { Some(m) : m \in JsonMessages } }

\* Result<Option<StreamEvent>, String>
DecodeErr == [result |-> "Err", event |-> None]
DecodeNone == [result |-> "Ok(None)", event |-> None]
DecodeSome(event) == [result |-> "Ok(Some)", event |-> Some(event)]

unwrap_or(option, default) == IF option = None THEN default ELSE option[1]

\* the `done` branch of decode_message
decode_finish(json) ==
  LET input_tokens == unwrap_or(json.prompt_eval_count, U32(0, 0))
      output_tokens == unwrap_or(json.eval_count, U32(0, 0))
      usage == [input_tokens |-> Some(input_tokens),
                output_tokens |-> Some(input_tokens),
                total_tokens |-> Some(wrapping_add(input_tokens, output_tokens))]
  IN [type |-> "Finish", delta |-> NoDelta,
      metadata |-> [finish_reason |-> Some("Stop"),
                    usage |-> Some(usage),
                    provider_id |-> Some("ollama"),
                    timestamp |-> json.created_at]]

\* `for call in calls { if let Some(function) = call.get("function") { .. } }`
decode_tool_calls(json, calls) ==
  LET has_function(entry) == entry.function # None
      with_function == SelectSeq(calls, has_function)
  IN [i \in DOMAIN with_function |->
        [id |-> <<"ollama-", unwrap_or(json.created_at, "")>>,
         name |-> unwrap_or(with_function[i].function[1].name, ""),
         arguments_json |-> unwrap_or(with_function[i].function[1].arguments, "{}")]]

\* the `message` branch of decode_message
decode_delta(json) ==
  LET message == json.message[1]
      content == IF message.content # None /\ message.content[1] # ""
                 THEN <<Text(<<message.content[1]>>)>> ELSE <<>>
      tool_calls == IF message.tool_calls # None
                    THEN decode_tool_calls(json, message.tool_calls[1]) ELSE <<>>
  IN Delta(StreamDelta(IF content = <<>> THEN None ELSE Some(content),
                       IF tool_calls = <<>> THEN None ELSE Some(tool_calls)))

\* decode_message of a text that parsed
decode_json(json) ==
  IF json.object /\ unwrap_or(json.done, FALSE) THEN DecodeSome(decode_finish(json))
  ELSE IF json.object /\ json.message # None THEN DecodeSome(decode_delta(json))
  ELSE DecodeNone

\* decode_message that skips a text that is no JSON
decode_message_skipping(raw) ==
  IF ~raw.parses THEN DecodeNone ELSE decode_json(raw)

\* OllamaChatStream::decode_message
decode_message(raw) ==
  IF ~raw.parses THEN DecodeErr ELSE decode_json(raw)

InitDecode ==
  /\ InitStream
  /\ es = NoSession
  /\ call \in { [fn |-> "decode_message", raw |-> raw, done |-> FALSE,
                  out |-> DecodeNone] : raw \in Payloads }

\* `input_tokens + output_tokens` on u32: a build with overflow checks panics
\* where the sum exceeds u32::MAX, a build without them wraps
DecodePanic == [result |-> "panic", event |-> None]

add_overflows(raw) ==
  /\ raw.parses /\ raw.object /\ raw.done = Some(TRUE)
  /\ unwrap_or(raw.prompt_eval_count, U32(0, 0)).hi
       + unwrap_or(raw.eval_count, U32(0, 0)).hi
       + ((unwrap_or(raw.prompt_eval_count, U32(0, 0)).lo
            + unwrap_or(raw.eval_count, U32(0, 0)).lo) \div 2^16) >= 2^16

decode_outcomes(raw) ==
  { decode_message(raw) } \cup (IF add_overflows(raw) THEN { DecodePanic } ELSE {})

\* self.implementation.decode_message(&message.data)
DecodeMessage ==
  /\ call.fn = "decode_message"
  /\ ~call.done
  /\ \E out \in decode_outcomes(call.raw) :
       call' = [call EXCEPT !.out = out, !.done = TRUE]
  /\ UNCHANGED <<streamVars, es>>

NextDecode == DecodeMessage

SpecDecode == InitDecode /\ [][NextDecode]_vars

\* decode_message was applied
Decoded == call.fn = "decode_message" /\ call.done

\* the event decode_message produced is a Delta / a Finish
DecodedDelta ==
  Decoded /\ call.out.event # None /\ call.out.event[1].type = "Delta"

DecodedFinish ==
  Decoded /\ call.out.event # None /\ call.out.event[1].type = "Finish"

\* the payload is an object that signals completion
IsTerminalPayload(raw) == raw.object /\ raw.done = Some(TRUE)

\* C22: empty-delta suppression. A payload that is not terminal and whose
\* message has empty or absent text and no tool call yields no Delta; every
\* Delta produced has a non-empty text part or a tool call.
C22_NoEmptyDelta ==
  DecodedDelta =>
    LET d == call.out.event[1].delta
    IN \/ (d.content # None /\ \E i \in DOMAIN d.content[1] :
                                  d.content[1][i].text # <<"">>)
       \/ (d.tool_calls # None /\ d.tool_calls[1] # <<>>)
\* C23: a payload with done = true maps to a Finish whose usage carries the
\* payload's counters: input_tokens is prompt_eval_count, output_tokens is
\* eval_count (a missing counter counts as 0), total_tokens is their sum.
C23_UsageCounters ==
  (Decoded /\ IsTerminalPayload(call.raw)) =>
    /\ DecodedFinish
    /\ LET usage == call.out.event[1].metadata.usage[1]
           prompt_eval_count == unwrap_or(call.raw.prompt_eval_count, U32(0, 0))
           eval_count == unwrap_or(call.raw.eval_count, U32(0, 0))
       IN /\ usage.input_tokens = Some(prompt_eval_count)
          /\ usage.output_tokens = Some(eval_count)
          /\ LET lo == prompt_eval_count.lo + eval_count.lo
                 hi == prompt_eval_count.hi + eval_count.hi + (lo \div 2^16)
             IN usage.total_tokens = Some(U32(hi, lo % 2^16))

\* the FinishReason a completion reason stands for
ClassifyReason(done_reason) ==
  IF done_reason = "stop" THEN "Stop"
  ELSE IF done_reason = "length" THEN "Length"
  ELSE "Other"

\* C24: the Finish event's finish_reason classifies the payload's completion
\* reason: "stop" gives Stop, "length" gives Length, a reason that is not
\* recognized gives Other.
C24_FinishReasonClassified ==
  (Decoded /\ IsTerminalPayload(call.raw) /\ call.raw.done_reason # None) =>
    /\ DecodedFinish
    /\ call.out.event[1].metadata.finish_reason =
         Some(ClassifyReason(call.raw.done_reason[1]))

\* C25: a payload that is no JSON makes decode_message return an error:
\* neither Ok(None) nor an event.
C25_UnparseableIsError ==
  (Decoded /\ ~call.raw.parses) => call.out = DecodeErr

\* decode_message was applied to a text that is no JSON and returned Err
C25_Witness ==
  /\ Decoded
  /\ call.raw = Unparseable
  /\ call.out.result = "Err"
  /\ call.out.event = None

\* C26: the ids of the tool calls decode_message produces from one payload
\* are pairwise distinct.
C26_ToolCallIdsDistinct ==
  (DecodedDelta /\ call.out.event[1].delta.tool_calls # None) =>
    LET tool_calls == call.out.event[1].delta.tool_calls[1]
    IN \A i, j \in DOMAIN tool_calls : i # j => tool_calls[i].id # tool_calls[j].id

\* ------------------------------------------- durable send() and continue_()
MaxProgram == 2    \* durable calls the caller program makes in one run

\* ChatEvent: what a provider's send() / continue_() returns
ChatEvents == { [type |-> "Message"], [type |-> "ToolRequest"], [type |-> "Error"] }

ToolResults == { <<[tool_call |-> ToolCall("ollama-t", "f", "{}"), result |-> "ok"]>> }

\* SendInput { messages, config }
SendInput(messages, config) == [messages |-> messages, config |-> config]

\* ContinueInput { messages, tool_results, config }
ContinueInput(messages, tool_results, config) ==
  [messages |-> messages, tool_results |-> tool_results, config |-> config]

\* the durable calls a caller program can make
DurableCalls ==
  { [fn |-> "send", input |-> SendInput(m, "m1")] : m \in { <<Q1>>, <<Q1, Q2>> } }
    \cup { [fn |-> "continue", input |-> ContinueInput(<<Q1>>, tr, "m1")] :
             tr \in ToolResults }

Programs == SeqsUpTo(DurableCalls, MaxProgram) \ { <<>> }

\* Durability::persist_infallible(input, result): records both, returns result
persist_input(log, fn, input, result) ==
  Append(log, [fn |-> fn, input |-> input, out |-> result])

\* a durable function that calls the provider on replay as well
durable_always_calls(c, fn, input) ==
  { [c EXCEPT !.provider = Append(@, Effect(fn, input, "PersistNothing")),
              !.oplog = IF c.cursor = Len(c.oplog)
                        THEN persist_input(c.oplog, fn, input, result) ELSE @,
              !.cursor = @ + 1,
              !.ret = Append(@, IF c.cursor = Len(c.oplog) THEN result
                                ELSE c.oplog[c.cursor + 1].out),
              !.ip = @ + 1] : result \in ChatEvents }

\* the body send() and continue_() share: Durability::new(..); if is_live()
\* { with_persistence_level(PersistNothing, || Impl::fn(..)); persist_infallible }
\* else { replay_infallible }
durable(c, fn, input) ==
  IF c.cursor = Len(c.oplog)
  THEN { [c EXCEPT !.provider = Append(@, Effect(fn, input, "PersistNothing")),
                   !.oplog = persist_input(@, fn, input, result),
                   !.cursor = @ + 1,
                   !.ret = Append(@, result),
                   !.ip = @ + 1] : result \in ChatEvents }
  ELSE { [c EXCEPT !.cursor = @ + 1,
                   !.ret = Append(@, replay_infallible(c.oplog, c.cursor)),
                   !.ip = @ + 1] }

\* DurableLLM::send
send(c, messages, config) == durable(c, "send", SendInput(messages, config))

\* DurableLLM::continue_
continue_(c, messages, tool_results, config) ==
  durable(c, "continue", ContinueInput(messages, tool_results, config))

\* passthrough_impl: send() and continue_() with the durability feature off
passthrough(c, fn, input) ==
  { [c EXCEPT !.provider = Append(@, Effect(fn, input, "Default")),
              !.ret = Append(@, result),
              !.ip = @ + 1] : result \in ChatEvents }

InitSend ==
  /\ InitStream
  /\ es = NoSession
  /\ call \in { [fn |-> feature, program |-> program, ip |-> 1, oplog |-> <<>>,
                  cursor |-> 0, provider |-> <<>>, ret |-> <<>>, crashes |-> 0] :
                feature \in { "durable", "passthrough" }, program \in Programs }

\* the caller program is at a durable call
AtCall(fn) ==
  /\ call.fn = "durable"
  /\ call.ip <= Len(call.program)
  /\ call.program[call.ip].fn = fn

Send ==
  /\ AtCall("send")
  /\ LET input == call.program[call.ip].input
     IN call' \in send(call, input.messages, input.config)
  /\ UNCHANGED <<streamVars, es>>

Continue ==
  /\ AtCall("continue")
  /\ LET input == call.program[call.ip].input
     IN call' \in continue_(call, input.messages, input.tool_results, input.config)
  /\ UNCHANGED <<streamVars, es>>

\* the worker is restarted: the program runs again from its start and the
\* oplog is replayed from its first entry
CrashSend ==
  /\ call.fn = "durable"
  /\ call.ip > 1
  /\ call.crashes < MaxCrashes
  /\ call' = [call EXCEPT !.ip = 1, !.cursor = 0, !.ret = <<>>, !.crashes = @ + 1]
  /\ UNCHANGED <<streamVars, es>>

\* a call of send() or continue_() of the passthrough DurableLLM
Passthrough ==
  /\ call.fn = "passthrough"
  /\ call.ip <= Len(call.program)
  /\ call' \in passthrough(call, call.program[call.ip].fn,
                            call.program[call.ip].input)
  /\ UNCHANGED <<streamVars, es>>

NextSend == Send \/ Continue \/ CrashSend \/ Passthrough

SpecSend == InitSend /\ [][NextSend]_vars

\* a step in which a durable send() or continue_() returns
DurableReturns == call.fn = "durable" /\ call'.ip = call.ip + 1

\* C27: a durable send() or continue_() in live mode calls the provider
\* exactly once, under PersistNothing, records the request input with the
\* result, and returns that result; in replay mode it returns the recorded
\* ChatEvent and does not call the provider.
C27_DurableSendOnce ==
  [][DurableReturns =>
       LET request == call.program[call.ip]
           result == call'.ret[Len(call'.ret)]
       IN /\ Len(call'.ret) = Len(call.ret) + 1
          /\ (call.cursor = Len(call.oplog)) =>
               /\ call'.provider =
                    Append(call.provider,
                           Effect(request.fn, request.input, "PersistNothing"))
               /\ call'.oplog =
                    Append(call.oplog, [fn |-> request.fn, input |-> request.input,
                                        out |-> result])
          /\ (call.cursor < Len(call.oplog)) =>
               /\ call'.provider = call.provider
               /\ call'.oplog = call.oplog
               /\ result = call.oplog[call.cursor + 1].out]_vars

\* after a restart a send() and a continue_() were both replayed: the
\* provider was called twice in all, and the run returned the recorded events
C27_Witness ==
  /\ call.fn = "durable"
  /\ call.crashes = 1
  /\ Len(call.program) = 2
  /\ call.program[1].fn = "send"
  /\ call.program[2].fn = "continue"
  /\ call.ip = 3
  /\ Len(call.provider) = 2
  /\ call.provider[1].level = "PersistNothing"
  /\ call.ret = <<call.oplog[1].out, call.oplog[2].out>>
  /\ call.ret[1].type = "ToolRequest"

\* --------------------------------------------------- SSE frame parser (4.2)
MaxBlocks == 2     \* SSE blocks in one response body

\* well-formed SSE blocks, each with the event it stands for
SseBlocks ==
  {
    [text |-> <<"d", "a", "t", "a", ":", " ", "a", "\n", "\n">>,
     event |-> <<"m", "e", "s", "s", "a", "g", "e">>, data |-> <<"a">>, id |-> None, retry |-> None],
    [text |-> <<"d", "a", "t", "a", ":", "a", "\n", "d", "a", "t", "a", ":", " ", "b", "\n", "\n">>,
     event |-> <<"m", "e", "s", "s", "a", "g", "e">>, data |-> <<"a", "\n", "b">>, id |-> None, retry |-> None],
    [text |-> <<"i", "d", ":", " ", "1", "\n", "d", "a", "t", "a", ":", " ", "a", "\n", "\n">>,
     event |-> <<"m", "e", "s", "s", "a", "g", "e">>, data |-> <<"a">>, id |-> Some(<<"1">>), retry |-> None],
    [text |-> <<"e", "v", "e", "n", "t", ":", " ", "e", "\n", "d", "a", "t", "a", ":", " ", "b", "\n", "\n">>,
     event |-> <<"e">>, data |-> <<"b">>, id |-> None, retry |-> None],
    [text |-> <<"r", "e", "t", "r", "y", ":", " ", "5", "\n", "d", "a", "t", "a", ":", " ", "a", "\n", "\n">>,
     event |-> <<"m", "e", "s", "s", "a", "g", "e">>, data |-> <<"a">>, id |-> None, retry |-> Some(<<"5">>)]
  }

RECURSIVE SseText(_)
\* the response body a sequence of blocks makes
SseText(blocks) ==
  IF blocks = <<>> THEN <<>> ELSE blocks[1].text \o SseText(Tail(blocks))

\* Message Event { event_name, data, id, retry }
SseEvent(event, data, id, retry) ==
  [event |-> event, data |-> data, id |-> id, retry |-> retry]

\* the parser before the first read: empty buffer, no block in progress
SseParser_new ==
  [buffer |-> <<>>, event |-> <<>>, data |-> None, retry |-> None,
   last_event_id |-> <<>>, events |-> <<>>]

\* the position of the first ':' of a line, 0 if it has none
find_colon(line) ==
  IF \E i \in DOMAIN line : line[i] = ":"
  THEN CHOOSE i \in DOMAIN line :
         line[i] = ":" /\ \A j \in 1..(i - 1) : line[j] # ":"
  ELSE 0

\* the value of a field: what follows the colon, without one leading space
field_value(line) ==
  LET i == find_colon(line)
      rest == IF i = 0 THEN <<>> ELSE SubSeq(line, i + 1, Len(line))
  IN IF rest # <<>> /\ rest[1] = " " THEN Tail(rest) ELSE rest

field_name(line) ==
  LET i == find_colon(line)
  IN IF i = 0 THEN line ELSE SubSeq(line, 1, i - 1)

\* one complete line: a blank line ends the block and emits its event if the
\* block has data; a field line is added to the block in progress
sse_line(p, line) ==
  IF line = <<>>
  THEN IF p.data = None
       THEN [p EXCEPT !.event = <<>>, !.retry = None]
       ELSE [p EXCEPT !.events =
                        Append(@, SseEvent(IF p.event = <<>>
                                           THEN <<"m", "e", "s", "s", "a", "g", "e">>
                                           ELSE p.event,
                                           p.data[1], p.last_event_id, p.retry)),
                      !.event = <<>>, !.data = None, !.retry = None]
  ELSE LET name == field_name(line)
           value == field_value(line)
       IN IF name = <<"d", "a", "t", "a">>
          THEN [p EXCEPT !.data = IF @ = None THEN Some(value)
                                  ELSE Some(@[1] \o <<"\n">> \o value)]
          ELSE IF name = <<"e", "v", "e", "n", "t">> THEN [p EXCEPT !.event = value]
          ELSE IF name = <<"i", "d">> THEN [p EXCEPT !.last_event_id = value]
          ELSE IF name = <<"r", "e", "t", "r", "y">> THEN [p EXCEPT !.retry = Some(value)]
          ELSE p

RECURSIVE sse_drain(_)
\* every complete line of the buffer is taken out and parsed
sse_drain(p) ==
  LET i == find_newline(p.buffer)
  IN IF i = 0 THEN p
     ELSE sse_drain(sse_line([p EXCEPT !.buffer = SubSeq(@, i + 1, Len(@))],
                             SubSeq(p.buffer, 1, i - 1)))

\* a read that forgets the unterminated line of the read before
sse_chunk_unbuffered(p, string) ==
  sse_drain([p EXCEPT !.buffer = string])

\* a read hands over a piece of text: it joins the unterminated rest of the
\* reads before
sse_chunk(p, string) ==
  sse_drain([p EXCEPT !.buffer = @ \o string])

\* end of the stream: a block in progress is not completed
sse_end(p) ==
  [p EXCEPT !.buffer = <<>>, !.event = <<>>, !.data = None, !.retry = None]

InitSse ==
  /\ InitStream
  /\ es = NoSession
  /\ call \in { [fn |-> "sse", blocks |-> blocks, wire |-> SseText(blocks),
                  parser |-> SseParser_new, reads |-> 0, torn |-> FALSE,
                  ended |-> FALSE] :
                blocks \in SeqsUpTo(SseBlocks, MaxBlocks) \ { <<>> } }

\* the transport hands over the next piece of the body, of any length
SseChunk ==
  /\ call.fn = "sse"
  /\ ~call.ended
  /\ \E k \in 1..Len(call.wire) :
       LET parser == sse_chunk(call.parser, SubSeq(call.wire, 1, k))
       IN call' = [call EXCEPT !.parser = parser,
                               !.wire = SubSeq(@, k + 1, Len(@)),
                               !.reads = @ + 1,
                               !.torn = @ \/ parser.buffer # <<>>]
  /\ UNCHANGED <<streamVars, es>>

\* the transport ends, after the whole body or before
SseEnd ==
  /\ call.fn = "sse"
  /\ ~call.ended
  /\ call' = [call EXCEPT !.parser = sse_end(@), !.ended = TRUE]
  /\ UNCHANGED <<streamVars, es>>

NextSse == SseChunk \/ SseEnd

SpecSse == InitSse /\ [][NextSse]_vars

\* the events a sequence of blocks stands for: each carries the id the last
\* id: field at or before it gave
SseExpected(blocks) ==
  [i \in DOMAIN blocks |->
     SseEvent(blocks[i].event, blocks[i].data,
              IF \E j \in 1..i : blocks[j].id # None
              THEN blocks[CHOOSE j \in 1..i :
                            /\ blocks[j].id # None
                            /\ \A k \in (j + 1)..i : blocks[k].id = None].id[1]
              ELSE <<>>,
              blocks[i].retry)]

\* C29: SSE frame integrity. Once a body of N well-formed blocks was handed
\* over, in whatever pieces, the parser has emitted exactly N Message Events,
\* in order, each equal to the event the body gives when fed as one piece.
C29_FrameIntegrity ==
  (call.fn = "sse" /\ call.wire = <<>>) =>
    /\ Len(call.parser.events) = Len(call.blocks)
    /\ call.parser.events = sse_chunk(SseParser_new, SseText(call.blocks)).events
    /\ call.parser.events = SseExpected(call.blocks)

\* a body of two blocks arrived in five reads or more, some of them ending
\* inside a line, and gave two events
C29_Witness ==
  /\ call.fn = "sse"
  /\ call.wire = <<>>
  /\ Len(call.blocks) = 2
  /\ call.reads >= 5
  /\ call.torn
  /\ Len(call.parser.events) = 2
  /\ call.parser.events[2].data = <<"a", "\n", "b">>

\* ------------------------------------------------- frame of the Replay state
\* the fields of a Replay state that the replay buffer consists of
ReplayFields(st) ==
  <<st.partial_result, st.finished, st.original_messages, st.config>>

\* the step is a get_next() that replayed an oplog entry
IsReplayStep == IsGetNextStep /\ ~returned'[Len(returned')].live

\* p is a prefix of q
IsPrefix(p, q) == Len(p) <= Len(q) /\ SubSeq(q, 1, Len(p)) = p

\* C30: while the stream stays in the Replay state, partial_result, finished,
\* original_messages and config are changed by the replay-consuming branch
\* of get_next() only (subscribe(), the handle registration of
\* blocking_get_next() and a live get_next() that finds finished = true leave
\* them as they are), and partial_result is never shortened.
C30_ReplayFrame ==
  [][(state.kind = "Replay" /\ state'.kind = "Replay") =>
       /\ ~IsReplayStep => ReplayFields(state') = ReplayFields(state)
       /\ IsPrefix(state.partial_result, state'.partial_result)
       /\ state'.original_messages = state.original_messages
       /\ state'.config = state.config
       /\ state.finished => state'.finished]_vars

\* a restarted stream replayed a Delta and then had a handle registered
\* while still replaying: the buffer holds the Delta next to the handle
C30_Witness ==
  /\ state.kind = "Replay"
  /\ state.partial_result # <<>>
  /\ state.pollables # <<>>
  /\ Pos(effects, "LazyInitializedPollable::new") # {}
  /\ ~state.finished

\* ------------------------------------------- the continuation prompt's shape
\* C31: the default ExtendedGuest::retry_prompt gives a System message with
\* the interruption note, a separate User message with the 'original
\* question' note, the original messages verbatim and in order, and a User
\* message with the 'partial response' note followed by the partial content.
C31_DefaultPromptShape ==
  (call.fn = "default_retry_prompt" /\ call.done) =>
    LET original == call.original_messages
        n == Len(original)
        out == call.out
    IN /\ Len(out) = n + 3
       /\ out[1] = Message("System", <<InterruptedNote>>)
       /\ out[2] = Message("User", <<OriginalQuestionNote>>)
       /\ SubSeq(out, 3, n + 2) = original
       /\ out[n + 3].role = "User"
       /\ Head(out[n + 3].content) = PartialResponseNote
       /\ Tail(out[n + 3].content) = PartialContent(call.partial_result)

\* the content parts of all Deltas, in Delta order and part order
AllContentParts(partial_result) ==
  Concat([i \in DOMAIN partial_result |->
            IF partial_result[i].content = None THEN <<>>
            ELSE partial_result[i].content[1]])

\* the tool calls of all Deltas, in Delta order and call order
AllToolCalls(partial_result) ==
  Concat([i \in DOMAIN partial_result |->
            IF partial_result[i].tool_calls = None THEN <<>>
            ELSE partial_result[i].tool_calls[1]])

\* C32: in the last message of the continuation prompt the partial-response
\* note is followed by the content parts of all Deltas, in Delta order and
\* part order, and these by the tool-call fragments of the partial result,
\* each as one tagged Text part with its id, name and arguments.
C32_PartsThenToolCalls ==
  (call.fn \in { "retry_prompt", "default_retry_prompt" } /\ call.done) =>
    LET last == call.out[Len(call.out)]
        calls == AllToolCalls(call.partial_result)
    IN /\ Head(last.content) = PartialResponseNote
       /\ Tail(last.content) =
            AllContentParts(call.partial_result)
            \o [i \in DOMAIN calls |->
                  Text(<<"<tool-call id=\"", calls[i].id, "\" name=\"", calls[i].name,
                         "\" arguments=\"", calls[i].arguments_json, "\"/>">>)]

\* ------------------------------------------ the NDJSON parser across reads
RECURSIVE OneChunk(_)
\* the events of a parser that holds the whole body after one read, polled
\* until the byte source ends
OneChunk(stream) ==
  LET parsed == try_parse_line(stream)
      remaining == parsed.stream.buffer
  IN IF IsSome(parsed.event)
     THEN <<parsed.event[1]>> \o OneChunk(parsed.stream)
     ELSE IF trim(remaining) # <<>>
          THEN <<MessageEvent(trim(remaining), stream.last_event_id)>>
          ELSE <<>>

\* C33: the NDJSON parser's events do not depend on the reads: when the
\* whole body and the end of the stream were taken, the events are those of
\* the body fed as one read, and no event's data holds a newline or is empty.
C33_ChunkingIndependent ==
  NdJsonDone =>
    /\ es.events = OneChunk([NdJsonStream_new EXCEPT !.buffer = es.response.body])
    /\ \A i \in DOMAIN es.events :
         /\ es.events[i].data # <<>>
         /\ "\n" \notin Range(es.events[i].data)

\* C34: NdJsonStream::poll_next returns neither Pending nor Ready(None)
\* while its buffer holds a newline-terminated non-blank line.
C34_NoWaitOverCompleteLine ==
  (NdJsonSession /\ es.pc = "idle" /\ es.out \in { Pending, ReadyNone }) =>
    SelectSeq(Lines(es.nd.buffer), NonBlank) = <<>>

\* NdJsonStreamState in the order NotStarted, Started, Terminated
StateRank(s) ==
  IF s = "NotStarted" THEN 0 ELSE IF s = "Started" THEN 1 ELSE 2

\* C35: the NDJSON parser's state moves NotStarted -> Started -> Terminated
\* only, and a poll_next of a terminated parser returns Ready(None), adds no
\* event and does not poll the byte source.
C35_TerminationAbsorbing ==
  [][NdJsonSession =>
       /\ StateRank(es'.nd.state) >= StateRank(es.nd.state)
       /\ (es.nd.state = "Terminated" /\ es' # es /\ ~es'.is_closed) =>
            /\ es'.pc = "idle"
            /\ es'.out = ReadyNone
            /\ es'.events = es.events
            /\ "transport" \notin es'.touched]_vars

\* a parser that ended after emitting an event was polled once more: the
\* poll looked at the parser only and returned Ready(None)
C35_Witness ==
  /\ NdJsonSession
  /\ es.nd.state = "Terminated"
  /\ es.pc = "idle"
  /\ es.out = ReadyNone
  /\ es.touched = {"parser"}
  /\ Len(es.events) = 2

\* ------------------------------------------------- the stream's state and mode
\* the stream exists: stream() returned and the caller has not dropped it
StreamAlive == pc \in { "idle", "blocking" }

\* C36: between stream() and drop the stream state is never empty (it is
\* Live or Replay), and while the host is replaying the state is not Live, so
\* that a get_next() in replay mode never finds a Live state; for every
\* sequence of calls and crashes.
C36_StateNeverEmpty ==
  StreamAlive =>
    /\ state.kind \in { "Live", "Replay" }
    /\ ~is_live => state.kind = "Replay"

\* after two crashes the stream replayed an entry and went on to a new live
\* stream: both states were active in this run, one after the other
C36_Witness ==
  /\ StreamAlive
  /\ crashes = 2
  /\ state.kind = "Live"
  /\ Len(returned) = 2
  /\ ~returned[1].live
  /\ returned[2].live

\* the step is neither a restart of the worker nor the drop of the stream
SameInstance == crashes' = crashes /\ pc' # "dropped"

\* C37: a stream in Live state stays in Live state and keeps its backend
\* stream: every get_next() delegates to that stream and no further backend
\* stream is opened, until the stream is dropped or the worker restarts.
C37_LiveIsMonotone ==
  [][(state.kind = "Live" /\ SameInstance) =>
       /\ state'.kind = "Live"
       /\ state'.stream = state.stream
       /\ Len(backend') = Len(backend)
       /\ IsGetNextStep =>
            /\ Pos(effects', "stream.get_next") # {}
            /\ \A i \in Pos(effects', "stream.get_next") :
                 effects'[i].arg = state.stream
            /\ Pos(effects', "unwrapped_stream") = {}]_vars

\* after the switch from Replay to Live a second get_next() went to the
\* stream the switch had opened
C37_Witness ==
  /\ crashes = 1
  /\ state.kind = "Live"
  /\ Len(backend) = 2
  /\ state.stream = 2
  /\ Len(returned) = 2
  /\ returned[1].live /\ returned[2].live
  /\ Len(backend[2].emitted) = 2
  /\ Pos(effects, "stream.get_next") # {}
  /\ Pos(effects, "unwrapped_stream") = {}

\* --------------------------------------------- the wrapper without a crash
\* with the durability feature off each call is one call of the provider
\* with the same arguments, and what it returns is returned
PassthroughIsProvider ==
  [][(call.fn = "passthrough" /\ call' # call) =>
       /\ call'.provider =
            Append(call.provider,
                   Effect(call.program[call.ip].fn, call.program[call.ip].input,
                          "Default"))
       /\ call'.oplog = call.oplog
       /\ Len(call'.ret) = Len(call.ret) + 1]_vars

Subscribed(eff) ==
  Pos(eff, "Impl::subscribe") \cup Pos(eff, "LazyInitializedPollable::new")

\* C39: blocking_get_next() registers its handle when the stream has none
\* and reuses it afterwards; the handle stays the same until the stream is
\* dropped or the worker restarts; a handle registered during replay is
\* bound to the new live stream by the switch from Replay to Live; every
\* iteration of the loop blocks on the handle before it calls get_next().
C39_OneHandleBlockFirst ==
  [][/\ (pc = "idle" /\ pc' = "blocking") =>
          IF IsSome(subscription)
          THEN subscription' = subscription /\ Subscribed(effects') = {}
                 /\ lazies' = lazies
          ELSE IsSome(subscription') /\ Cardinality(Subscribed(effects')) = 1
     /\ (IsSome(subscription) /\ SameInstance) => subscription' = subscription
     /\ (pc = "blocking" /\ IsGetNextStep) =>
          /\ IsSome(subscription)
          /\ effects'[1] = Effect("block", subscription[1].lazy, "Default")
          /\ Pos(effects', "block") = {1}
          /\ Subscribed(effects') = {}
     /\ (pc = "blocking" /\ state.kind = "Replay" /\ state'.kind = "Live") =>
          /\ subscription[1].lazy # 0
          /\ lazies'[subscription[1].lazy].target = state'.stream]_vars

\* the handle was registered while the stream replayed; the loop switched to
\* a new live stream, and a later blocking_get_next() blocked on the same
\* handle, now bound to that stream
C39_Witness ==
  /\ crashes >= 1
  /\ state.kind = "Live"
  /\ IsSome(subscription)
  /\ subscription[1].lazy # 0
  /\ lazies[subscription[1].lazy].target = state.stream
  /\ Len(returned) = 2
  /\ returned[1].live /\ returned[2].live
  /\ effects # <<>>
  /\ effects[1].op = "block"
  /\ Pos(effects, "unwrapped_stream") = {}

\* ------------------------------------------------ recovery after recovery
\* what the backend streams emitted, attempt after attempt
AttemptOutputs(bk) == Concat([i \in DOMAIN bk |-> bk[i].emitted])

\* the Deltas in a sequence of get_next() outputs
DeltasIn_outputs(outs) == DeltasOf([i \in DOMAIN outs |-> [result |-> outs[i]]])

====
